---- MODULE Spec2Model ----
(***************************************************************************)
(* MindVault: the capture -> analyze -> persist pipeline.                  *)
(*                                                                         *)
(*   - the on-device store (localStorage, two items)                       *)
(*   - the remote store (Firestore, per-user collection + profile doc)     *)
(*   - the recorder widget (RecorderWidget.tsx) and processAudioJournal    *)
(*                                                                         *)
(* Three specifications share the variables:                               *)
(*   SpecLocal   the on-device store API, one synchronous call per step    *)
(*   SpecRemote  the remote store API, two callers interleaved at awaits   *)
(*   SpecFlow    the recorder widget driving extraction and a store        *)
(***************************************************************************)
EXTENDS Integers, Sequences, FiniteSets, TLC

VARIABLES
    lsEntries,    \* localStorage item 'mindvault_entries_v1'
    lsProfile,    \* localStorage item 'mindvault_profile_v1'
    clock,        \* Date.now()
    lastOp,       \* the last completed on-device call (observation only)
    fsEntries,    \* Firestore users/{uid}/journal_entries : set of documents
    fsProfile,    \* Firestore users/{uid}/profile/core
    currentUser,  \* auth.currentUser is set
    calls,        \* the remote calls in flight, one slot per caller
    writeCount,   \* number of profile documents written so far (observation only)
    callsLeft,    \* remote calls that may still be issued
    backend,      \* which services/storage the recorder widget is built with
    widget,       \* RecorderWidget: its React state and refs
    rec,          \* the captures started so far: microphone, recorder, handleStop
    dash          \* InsightsDashboard: its React state and the analysis in flight

localVars == <<lsEntries, lsProfile, lastOp>>
remoteVars == <<fsEntries, fsProfile, currentUser, calls, writeCount, callsLeft>>
flowVars == <<backend, widget, rec, dash>>
vars == <<lsEntries, lsProfile, clock, lastOp,
          fsEntries, fsProfile, currentUser, calls, writeCount, callsLeft,
          backend, widget, rec, dash>>

(***************************************************************************)
(* Bounds of the model.                                                    *)
(***************************************************************************)
MaxFacts == 2
MaxEntries == 1
MaxCalls == 3
MaxRecordings == 1
MaxSaves == 102
MaxClock == 1
MaxQueries == 2
MaxBoth == 4
MaxRestarts == 2
MaxImport == 101
MaxAccountCalls == 2

(***************************************************************************)
(* JavaScript values.                                                      *)
(***************************************************************************)
Range(s) == {s[i] : i \in DOMAIN s}
NoDuplicates(s) == \A i, j \in DOMAIN s : s[i] = s[j] => i = j

\* An array-or-undefined value, as entry.metadata.extractedFacts is when the
\* payload was never validated.
Arr(s) == [t |-> "array", v |-> s]
Undef == [t |-> "undefined", v |-> <<>>]
\* !newFacts || newFacts.length === 0
FalsyOrEmpty(x) == x.t = "undefined" \/ Len(x.v) = 0

\* Fact strings: "A" and "a" differ only in case.
FactStrings == {"A", "a", "B"}
FactSeqs == UNION {[1..n -> FactStrings] : n \in 0..MaxFacts}
FactArgs == {Arr(s) : s \in FactSeqs} \cup {Undef}

RECURSIVE ArrayFromSet(_)
\* Array.from(new Set(arr)): each value once, in order of first occurrence.
ArrayFromSet(arr) ==
    IF arr = <<>> THEN <<>>
    ELSE LET init == ArrayFromSet(SubSeq(arr, 1, Len(arr) - 1))
             last == arr[Len(arr)]
         IN  IF last \in Range(init) THEN init ELSE Append(init, last)

\* Array.from(new Set([...profile.coreMemories, ...newFacts]))
Merge(coreMemories, newFacts) == ArrayFromSet(coreMemories \o newFacts)

\* { coreMemories: [], lastUpdated: Date.now() }
EmptyProfile(now) == [kind |-> "profile", coreMemories |-> <<>>, lastUpdated |-> now]
Profile(core, now) == [kind |-> "profile", coreMemories |-> core, lastUpdated |-> now]
\* A truthy JSON value that has no coreMemories array, such as {} or "x".
MalformedProfile == [kind |-> "malformed"]

\* A JournalEntry, reduced to the fields the stores and the pipeline read.
Metadata(facts, shape, valence, arousal) ==
    [extractedFacts |-> facts, shape |-> shape, valence |-> valence, arousal |-> arousal]
Entry(id, ts, md) == [id |-> id, timestamp |-> ts, metadata |-> md]
\* The entries the store specifications save: well-formed metadata.
EntryFacts == {Arr(<<>>), Arr(<<"a", "B">>)}
StoreEntries ==
    {Entry("e1", 1, Metadata(f, "valid", 0, 0)) : f \in EntryFacts}
    \cup {Entry("e2", 2, Metadata(f, "valid", 0, 0)) : f \in EntryFacts}

(***************************************************************************)
(* The on-device store: services/storage.ts over localStorage.             *)
(***************************************************************************)
\* localStorage items: absent, or the JSON text of a value.
NoItem == [present |-> FALSE]
JSONstringify(v) == [present |-> TRUE, json |-> v]
JSONparse(item) == item.json

\* getEntries(): [] when the item is missing, else the parsed array.
LocalGetEntries == IF ~lsEntries.present THEN <<>> ELSE JSONparse(lsEntries)

\* An item whose text is not JSON: JSON.parse throws a SyntaxError on it.
SyntaxError == [kind |-> "SyntaxError"]
GarbageItem == [present |-> TRUE, json |-> SyntaxError]

\* A mutant of LocalGetUserProfileAt: JSON.parse is not guarded.
LocalGetUserProfileNoCatch(now) ==
    IF ~lsProfile.present THEN EmptyProfile(now) ELSE JSONparse(lsProfile)

\* getUserProfile() called at time now: the empty profile, stamped now, when
\* the item is missing or does not parse, else the parsed value, whatever it
\* is.
LocalGetUserProfileAt(now) ==
    IF ~lsProfile.present \/ JSONparse(lsProfile).kind = "SyntaxError"
    THEN EmptyProfile(now)
    ELSE JSONparse(lsProfile)

LocalGetUserProfile == LocalGetUserProfileAt(clock)

\* The call record kept for the claims.
OpRecord(op, facts, threw) == [op |-> op, facts |-> facts, threw |-> threw]

\* updateUserProfile(newFacts), lines 43-56.  setItemFails: localStorage.setItem
\* throws (quota).  Spreading profile.coreMemories of a value that has none
\* throws a TypeError before anything is written.
LocalUpdateProfileEffect(newFacts, setItemFails) ==
    IF FalsyOrEmpty(newFacts)
    THEN /\ lsProfile' = lsProfile
         /\ lastOp' = OpRecord("updateUserProfile", newFacts, FALSE)
    ELSE LET profile == LocalGetUserProfile IN
         IF profile.kind # "profile" \/ setItemFails
         THEN /\ lsProfile' = lsProfile
              /\ lastOp' = OpRecord("updateUserProfile", newFacts, TRUE)
         ELSE /\ lsProfile' = JSONstringify(
                     Profile(Merge(profile.coreMemories, newFacts.v), clock))
              /\ lastOp' = OpRecord("updateUserProfile", newFacts, FALSE)

\* if (updated.length > 100) updated.length = 100
RetentionCap == 100

\* A mutant of Capped: the list is never cut.
Uncapped(updated) == updated

\* A mutant of Capped: only the entry just saved is kept.
CappedToNewest(updated) == SubSeq(updated, 1, 1)

Capped(updated) ==
    IF Len(updated) > RetentionCap THEN SubSeq(updated, 1, RetentionCap) ELSE updated

\* A mutant of LocalSaveEntryEffect: the profile is merged before the entry
\* is written.
LocalSaveEntryProfileFirst(entry, failAt) ==
    LET facts == entry.metadata.extractedFacts
        profile == LocalGetUserProfile
    IN  /\ lsProfile' =
              IF FalsyOrEmpty(facts) \/ profile.kind # "profile" \/ failAt = "profile"
              THEN lsProfile
              ELSE JSONstringify(Profile(Merge(profile.coreMemories, facts.v), clock))
        /\ lsEntries' = IF failAt = "entry" THEN lsEntries
                        ELSE JSONstringify(<<entry>> \o LocalGetEntries)
        /\ lastOp' = OpRecord("saveEntry", facts, failAt # "none")

\* saveEntry(entry), lines 8-18.  failAt: which setItem throws, if any.
LocalSaveEntryEffect(entry, failAt) ==
    LET existing == LocalGetEntries
        updated == <<entry>> \o existing
        capped == Capped(updated)
        facts == entry.metadata.extractedFacts
    IN  IF failAt = "entry"
        THEN /\ lsEntries' = lsEntries
             /\ lsProfile' = lsProfile
             /\ lastOp' = OpRecord("saveEntry", facts, TRUE)
        ELSE /\ lsEntries' = JSONstringify(capped)
             /\ IF FalsyOrEmpty(facts)
                THEN /\ lsProfile' = lsProfile
                     /\ lastOp' = OpRecord("saveEntry", facts, FALSE)
                ELSE LET profile == LocalGetUserProfile IN
                     IF profile.kind # "profile" \/ failAt = "profile"
                     THEN /\ lsProfile' = lsProfile
                          /\ lastOp' = OpRecord("saveEntry", facts, TRUE)
                     ELSE /\ lsProfile' = JSONstringify(
                                 Profile(Merge(profile.coreMemories, facts.v), clock))
                          /\ lastOp' = OpRecord("saveEntry", facts, FALSE)

\* A mutant of LocalClearHistoryEffect: only the entries are removed.
LocalClearHistoryKeepsProfile ==
    /\ lsEntries' = NoItem
    /\ lsProfile' = lsProfile
    /\ lastOp' = OpRecord("clearHistory", Undef, FALSE)

\* clearHistory(), lines 58-61.
LocalClearHistoryEffect ==
    /\ lsEntries' = NoItem
    /\ lsProfile' = NoItem
    /\ lastOp' = OpRecord("clearHistory", Undef, FALSE)

\* The interchange documents importData is given.  text "garbage" does not
\* parse; "null" parses to null; "scalar" to a number; "object" to an object
\* whose entries and profile are as given.
ImportedProfiles ==
    {Profile(<<"A", "A">>, 0), Profile(<<"a", "B">>, 0), MalformedProfile}
ImportedEntries ==
    {<<>>,
     <<Entry("e1", 1, Metadata(Arr(<<"A">>), "valid", 0, 0))>>,
     <<Entry("e1", 1, Metadata(Arr(<<"A">>), "valid", 0, 0)),
       Entry("e2", 2, Metadata(Arr(<<>>), "valid", 0, 0))>>}
Document(text, entriesField, entries, hasProfile, profile) ==
    [text |-> text, entriesField |-> entriesField, entries |-> entries,
     hasProfile |-> hasProfile, profile |-> profile]
Documents ==
    {Document(t, "absent", <<>>, FALSE, MalformedProfile) :
        t \in {"garbage", "null", "scalar", "object"}}
    \cup {Document("object", "notArray", <<>>, FALSE, MalformedProfile)}
    \cup {Document("object", "array", es, FALSE, MalformedProfile) : es \in ImportedEntries}
    \cup {Document("object", "absent", <<>>, TRUE, p) : p \in ImportedProfiles}
    \cup {Document("object", "array", es, TRUE, p) :
            es \in ImportedEntries, p \in ImportedProfiles}

\* A mutant of LocalImportDataEffect: both items are replaced wholesale, a
\* field the document lacks clearing its item.
LocalImportDataWholesale(doc) ==
    IF doc.text \in {"garbage", "null"}
    THEN /\ lsEntries' = lsEntries
         /\ lsProfile' = lsProfile
         /\ lastOp' = OpRecord("importData", Undef, TRUE)
    ELSE /\ lsEntries' = IF doc.text = "object" /\ doc.entriesField = "array"
                         THEN JSONstringify(doc.entries) ELSE NoItem
         /\ lsProfile' = IF doc.text = "object" /\ doc.hasProfile
                         THEN JSONstringify(doc.profile) ELSE NoItem
         /\ lastOp' = OpRecord("importData", Undef, FALSE)

\* importData(jsonString), lines 77-91.  JSON.parse throws on garbage and
\* data.entries throws on null; both are caught and false is returned.
LocalImportDataEffect(doc) ==
    IF doc.text \in {"garbage", "null"}
    THEN /\ lsEntries' = lsEntries
         /\ lsProfile' = lsProfile
         /\ lastOp' = OpRecord("importData", Undef, TRUE)
    ELSE /\ lsEntries' = IF doc.text = "object" /\ doc.entriesField = "array"
                         THEN JSONstringify(doc.entries) ELSE lsEntries
         /\ lsProfile' = IF doc.text = "object" /\ doc.hasProfile
                         THEN JSONstringify(doc.profile) ELSE lsProfile
         /\ lastOp' = OpRecord("importData", Undef, FALSE)

LocalSaveEntry ==
    /\ Len(LocalGetEntries) < MaxEntries
    /\ \E e \in StoreEntries, failAt \in {"none", "entry", "profile"} :
          LocalSaveEntryEffect(e, failAt)
    /\ UNCHANGED <<clock, remoteVars, flowVars>>

LocalUpdateUserProfile ==
    /\ \E f \in FactArgs, fails \in BOOLEAN : LocalUpdateProfileEffect(f, fails)
    /\ UNCHANGED <<lsEntries, clock, remoteVars, flowVars>>

LocalClearHistory ==
    /\ LocalClearHistoryEffect
    /\ UNCHANGED <<clock, remoteVars, flowVars>>

LocalImportData ==
    /\ \E doc \in Documents : LocalImportDataEffect(doc)
    /\ UNCHANGED <<clock, remoteVars, flowVars>>

\* A mutant of ExportData: the profile exported is a fresh empty one.
ExportDataFreshProfile(now) ==
    Document("object", "array", LocalGetEntries, TRUE, EmptyProfile(now))

\* exportData() called at time now, lines 71-75, as importData reads it back:
\* JSON text of an object whose entries is the array getEntries returned and
\* whose profile is what getUserProfile returned, an object or another truthy
\* value.  exportedAt is read by nothing.
ExportData(now) ==
    Document("object", "array", LocalGetEntries, TRUE, LocalGetUserProfileAt(now))

\* importData(exportData()): one synchronous expression, evaluated now or a
\* moment after the last call.
LocalRoundTrip ==
    /\ \E now \in {clock, clock + 1} :
          /\ now <= MaxClock
          /\ clock' = now
          /\ LocalImportDataEffect(ExportData(now))
    /\ UNCHANGED <<remoteVars, flowVars>>

\* getUserProfile() called on its own; what it returned is kept in the record
\* of the call.  No path of it throws.
LocalReadUserProfile ==
    /\ lastOp' = OpRecord("getUserProfile", LocalGetUserProfile, FALSE)
    /\ UNCHANGED <<lsEntries, lsProfile, clock, remoteVars, flowVars>>

\* saveEntry of the entry made now: each call is later than the one before,
\* and the entry carries the time of its making as id and timestamp.  The
\* entry write itself goes through; the profile write after it may throw.
LocalSaveNextEntry ==
    /\ clock < MaxSaves
    /\ clock' = clock + 1
    /\ \E failAt \in {"none", "profile"} :
          LocalSaveEntryEffect(
              Entry(ToString(clock'), clock', Metadata(Arr(<<"A">>), "valid", 0, 0)),
              failAt)
    /\ UNCHANGED <<remoteVars, flowVars>>

\* A backup of n entries, the newest first, as exportData of a store that
\* holds n entries writes it; it carries no profile.
Backup(n) ==
    Document("object", "array",
             [k \in 1..n |->
                 Entry(ToString(n - k + 1), n - k + 1,
                       Metadata(Arr(<<"A">>), "valid", 0, 0))],
             FALSE, MalformedProfile)

\* importData of a backup of up to MaxImport entries.
LocalImportBackup ==
    /\ \E n \in {1, RetentionCap, MaxImport} : LocalImportDataEffect(Backup(n))
    /\ UNCHANGED <<clock, remoteVars, flowVars>>

\* Time passes: Date.now() grows.
Tick ==
    /\ clock < MaxClock
    /\ clock' = clock + 1
    /\ UNCHANGED <<localVars, remoteVars, flowVars>>

(***************************************************************************)
(* The remote store: services/storage.ts over Firestore.  Every await is   *)
(* a suspension point: a call is a sequence of steps, and the steps of two *)
(* calls interleave.                                                       *)
(***************************************************************************)
Callers == {1, 2}

\* The fact sequences the callers pass to the remote updateUserProfile.
RemoteFactArgs == {Undef, Arr(<<>>), Arr(<<"A">>), Arr(<<"B">>), Arr(<<"a", "B">>)}

NoDoc == [exists |-> FALSE]
Doc(data) == [exists |-> TRUE, data |-> data]

\* What getDoc finds in users/{uid}/profile/core.
StoredCore == IF fsProfile.exists THEN fsProfile.data.coreMemories ELSE <<>>

NoEntry == Entry("none", 0, Metadata(Undef, "valid", 0, 0))

RECURSIVE OrderByTimestampDesc(_)
\* query(collection, orderBy('timestamp', 'desc')): the documents, the
\* greatest timestamp first.
OrderByTimestampDesc(docs) ==
    IF docs = {} THEN <<>>
    ELSE LET d == CHOOSE x \in docs : \A y \in docs : y.timestamp <= x.timestamp
         IN  <<d>> \o OrderByTimestampDesc(docs \ {d})

\* getEntries(), lines 21-34: [] without a user or when getDocs throws, else
\* the documents of the ordered query.
RemoteGetEntries(getDocsOK) ==
    IF ~currentUser \/ ~getDocsOK THEN <<>> ELSE OrderByTimestampDesc(fsEntries)

\* A call: where it is suspended (pc), its arguments, and what it has seen.
\*   read     the coreMemories getUserProfile returned to it
\*   pre      the coreMemories that were stored when it read (observation)
\*   invokedVer, readVer  writeCount when it was invoked, when it read
\*   writeVer             writeCount after its profile write (0: none yet)
\*   now      Date.now() as updateUserProfile evaluated it, after its read
CallRecord(pc, op, entry, facts, invokedVer) ==
    [pc |-> pc, op |-> op, entry |-> entry, facts |-> facts,
     read |-> <<>>, pre |-> <<>>, readOK |-> FALSE, now |-> 0,
     invokedVer |-> invokedVer, readVer |-> 0, writeVer |-> 0]
Call(pc, op, entry, facts) == CallRecord(pc, op, entry, facts, writeCount)
IdleCall == CallRecord("idle", "none", NoEntry, Undef, 0)

Returned(c) == c.pc \in {"idle", "done", "failed"}

\* A mutant of UpdateProfileStart: the user is looked up before the facts.
UpdateProfileStartUserFirst(newFacts) ==
    IF ~currentUser THEN "failed"
    ELSE IF FalsyOrEmpty(newFacts) THEN "done"
    ELSE "profileRead"

\* updateUserProfile(newFacts) up to its first await, lines 54-58: returns at
\* once on no facts, throws without a user, else awaits getUserProfile().
UpdateProfileStart(newFacts) ==
    IF FalsyOrEmpty(newFacts) THEN "done"
    ELSE IF ~currentUser THEN "failed"
    ELSE "profileRead"

\* saveEntry(entry) up to its first await, lines 12-15.
RemoteInvokeSaveEntry(p) ==
    /\ Returned(calls[p])
    /\ callsLeft > 0
    /\ callsLeft' = callsLeft - 1
    /\ \E e \in StoreEntries :
          calls' = [calls EXCEPT ![p] =
              Call(IF currentUser THEN "entryWrite" ELSE "failed",
                   "saveEntry", e, e.metadata.extractedFacts)]
    /\ UNCHANGED <<fsEntries, fsProfile, currentUser, writeCount, clock, localVars, flowVars>>

\* A mutant of RemoteEntryWrite: every call writes the same document, so a
\* write replaces what the other call stored.
RemoteEntryWriteOneDocument(p) ==
    /\ calls[p].pc = "entryWrite"
    /\ \E ok \in BOOLEAN :
          IF ok
          THEN /\ fsEntries' = {calls[p].entry}
               /\ calls' = [calls EXCEPT ![p].pc = UpdateProfileStart(calls[p].facts)]
          ELSE /\ fsEntries' = fsEntries
               /\ calls' = [calls EXCEPT ![p].pc = "failed"]
    /\ UNCHANGED <<fsProfile, currentUser, writeCount, callsLeft, clock, localVars, flowVars>>

\* await setDoc(entryRef, entry) settles, lines 15-18; on success the call
\* runs on into updateUserProfile(entry.metadata.extractedFacts).
RemoteEntryWrite(p) ==
    /\ calls[p].pc = "entryWrite"
    /\ \E ok \in BOOLEAN :
          IF ok
          THEN /\ fsEntries' = {d \in fsEntries : d.id # calls[p].entry.id}
                                   \cup {calls[p].entry}
               /\ calls' = [calls EXCEPT ![p].pc = UpdateProfileStart(calls[p].facts)]
          ELSE /\ fsEntries' = fsEntries
               /\ calls' = [calls EXCEPT ![p].pc = "failed"]
    /\ UNCHANGED <<fsProfile, currentUser, writeCount, callsLeft, clock, localVars, flowVars>>

\* updateUserProfile(newFacts) called on its own.
RemoteInvokeUpdateUserProfile(p) ==
    /\ Returned(calls[p])
    /\ callsLeft > 0
    /\ callsLeft' = callsLeft - 1
    /\ \E f \in RemoteFactArgs :
          calls' = [calls EXCEPT ![p] =
              Call(UpdateProfileStart(f), "updateUserProfile", NoEntry, f)]
    /\ UNCHANGED <<fsEntries, fsProfile, currentUser, writeCount, clock, localVars, flowVars>>

\* getUserProfile() called on its own, lines 38-41: the empty profile at once
\* without a user, else await getDoc.
RemoteInvokeGetUserProfile(p) ==
    /\ Returned(calls[p])
    /\ callsLeft > 0
    /\ callsLeft' = callsLeft - 1
    /\ calls' = [calls EXCEPT ![p] =
          Call(IF currentUser THEN "profileRead" ELSE "done",
               "getUserProfile", NoEntry, Undef)]
    /\ UNCHANGED <<fsEntries, fsProfile, currentUser, writeCount, clock, localVars, flowVars>>

\* await getUserProfile() settles, lines 38-52 and 58: the stored profile, or
\* the empty profile when there is no document or getDoc throws.  Called from
\* updateUserProfile the call runs on to its write.
RemoteProfileRead(p) ==
    /\ calls[p].pc = "profileRead"
    /\ \E ok \in BOOLEAN :
          calls' = [calls EXCEPT ![p] =
              [@ EXCEPT !.pc = IF calls[p].op = "getUserProfile"
                               THEN "done" ELSE "profileWrite",
                        !.read = IF ok THEN StoredCore ELSE <<>>,
                        !.pre = StoredCore,
                        !.readOK = ok,
                        !.now = clock,
                        !.readVer = writeCount]]
    /\ UNCHANGED <<fsEntries, fsProfile, currentUser, writeCount, callsLeft, clock, localVars, flowVars>>

\* A mutant of RemoteUpdatedProfile: merges into what is stored at the time of
\* the write, as a transaction would.
RemoteUpdatedProfileInTransaction(c) == Profile(Merge(StoredCore, c.facts.v), clock)

\* A mutant of RemoteUpdatedProfile: lastUpdated is left at what was read.
RemoteUpdatedProfileOldStamp(c) ==
    Profile(Merge(c.read, c.facts.v),
            IF fsProfile.exists THEN fsProfile.data.lastUpdated ELSE 0)

\* The document updateUserProfile writes, lines 60-65: built when the read
\* has returned, before the write is awaited.
RemoteUpdatedProfile(c) == Profile(Merge(c.read, c.facts.v), c.now)

\* await setDoc(docRef, updatedProfile) settles, lines 67-68.
RemoteProfileWrite(p) ==
    /\ calls[p].pc = "profileWrite"
    /\ \E ok \in BOOLEAN :
          IF ok
          THEN /\ fsProfile' = Doc(RemoteUpdatedProfile(calls[p]))
               /\ writeCount' = writeCount + 1
               /\ calls' = [calls EXCEPT ![p] =
                     [@ EXCEPT !.pc = "done", !.writeVer = writeCount + 1]]
          ELSE /\ UNCHANGED <<fsProfile, writeCount>>
               /\ calls' = [calls EXCEPT ![p].pc = "failed"]
    /\ UNCHANGED <<fsEntries, currentUser, callsLeft, clock, localVars, flowVars>>

\* A mutant of RemoteClearHistoryStart: the user is not looked up.
RemoteClearHistoryStartNoUser == "done"

\* clearHistory() up to its return, lines 71-73: getUserId() throws without a
\* signed-in user.
RemoteClearHistoryStart == IF currentUser THEN "done" ELSE "failed"

\* A mutant of RemoteClearHistoryEffect: the user's documents are deleted.
RemoteClearHistoryDeletes ==
    /\ fsEntries' = {}
    /\ fsProfile' = NoDoc

\* clearHistory() with a user, lines 74-75: a console warning; no document
\* is deleted.
RemoteClearHistoryEffect ==
    /\ fsEntries' = fsEntries
    /\ fsProfile' = fsProfile

\* clearHistory() called on its own, lines 71-76: it has no await, so it runs
\* from call to return in one step.
RemoteClearHistory(p) ==
    /\ Returned(calls[p])
    /\ callsLeft > 0
    /\ callsLeft' = callsLeft - 1
    /\ calls' = [calls EXCEPT ![p] =
          Call(RemoteClearHistoryStart, "clearHistory", NoEntry, Undef)]
    /\ IF currentUser
       THEN RemoteClearHistoryEffect
       ELSE UNCHANGED <<fsEntries, fsProfile>>
    /\ UNCHANGED <<currentUser, writeCount, clock, localVars, flowVars>>

\* await saveEntry(entry) on the remote store from start to end, lines 12-19
\* and 54-69, with a signed-in user, no other call in flight and every
\* Firestore call succeeding: the entry document is set, then the profile is
\* read, merged and set when the entry brings facts.
RemoteSaveEntryToEnd(entry) ==
    LET facts == entry.metadata.extractedFacts IN
    /\ fsEntries' = {d \in fsEntries : d.id # entry.id} \cup {entry}
    /\ IF FalsyOrEmpty(facts)
       THEN UNCHANGED <<fsProfile, writeCount>>
       ELSE /\ fsProfile' = Doc(Profile(Merge(StoredCore, facts.v), clock))
            /\ writeCount' = writeCount + 1

\* The same saveEntry call made against both stores, one call after another.
BothSaveEntry ==
    /\ currentUser
    /\ Len(LocalGetEntries) < MaxBoth
    /\ \E e \in StoreEntries :
          /\ LocalSaveEntryEffect(e, "none")
          /\ RemoteSaveEntryToEnd(e)
    /\ UNCHANGED <<currentUser, calls, callsLeft, clock, flowVars>>

(***************************************************************************)
(* The extraction call: processAudioJournal (services/gemini.ts).          *)
(***************************************************************************)
\* valence and arousal in tenths: -1.0 .. 1.0 and 0.0 .. 1.0 (types.ts).
ValenceMin == -10
ValenceMax == 10
ArousalMin == 0
ArousalMax == 10

\* What the service sends back: nothing usable, or a JSON text.  The payloads
\* cover the required shape and each way of missing it.
Payloads ==
    {Metadata(Arr(<<"A">>), "valid", -10, 10),
     Metadata(Undef, "missingField", 0, 0),
     Metadata(Arr(<<"B">>), "badEnum", 0, 0),
     Metadata(Arr(<<>>), "valid", 15, 0),
     Metadata(Arr(<<"B">>), "valid", 0, -5)}
Responses ==
    {[kind |-> k, payload |-> Metadata(Undef, "missingField", 0, 0)] :
        k \in {"rejected", "noText", "unparsable"}}
    \cup {[kind |-> "json", payload |-> md] : md \in Payloads}

\* The responseSchema of the request, lines 160-192, and the ranges of
\* types.ts.  The code sends the schema with the request and compares the
\* answer with neither.
MatchesShape(md) == md.shape = "valid" /\ md.extractedFacts.t = "array"
InRange(md) ==
    /\ ValenceMin <= md.valence /\ md.valence <= ValenceMax
    /\ ArousalMin <= md.arousal /\ md.arousal <= ArousalMax

\* processAudioJournal, lines 145-197: the call rejects, response.text is
\* empty, or JSON.parse throws; any text that parses is returned as it is.
ProcessAudioJournalThrows(response) ==
    response.kind \in {"rejected", "noText", "unparsable"}

(***************************************************************************)
(* The recorder widget: components/RecorderWidget.tsx.                     *)
(***************************************************************************)
Recordings == 1..MaxRecordings
FlowEntryIds == <<"e1", "e2", "e3", "e4">>

MsgPermission == "Permission denied. Please allow microphone access."
MsgNotFound == "No microphone found."
MsgMicFailed == "Microphone access failed."
MsgEmpty == "Recording failed: No audio data captured."
MsgProcessing == "Failed to process audio with Gemini."
NoMsg == "null"

\* The hour of the day, new Date().getHours().
Hours == 0..23

LabelWork == "Office / Work"
LabelHome == "Home"
LabelOutdoors == "Outdoors / Transit"

\* getContextualLocation(hour), the same code in both services/storage.
getContextualLocation(hour) ==
    IF hour >= 9 /\ hour <= 17 THEN LabelWork
    ELSE IF hour > 22 \/ hour < 7 THEN LabelHome
    ELSE LabelOutdoors

\* CONTEXT_TAGS, lines 11-16: the labels of the context buttons.
ContextTags == {"Home", "Work", "Social", "Private"}

\* The geolocation request of the mount effect, lines 32-50: pending, or how
\* it ended and, with a fix, the hour read at that moment.
GeoPending == [status |-> "pending", hour |-> 0]

\* useState / useRef initial values, lines 19-30.
InitialWidget ==
    [mounted |-> TRUE, isInitializing |-> FALSE, isRecording |-> FALSE,
     isProcessing |-> FALSE, errorMsg |-> NoMsg,
     locationName |-> "Locating...", manualContext |-> "Home", geo |-> GeoPending,
     mediaRecorderRef |-> 0, chunksRef |-> <<>>, timerRef |-> 0]

\* The mount effect without navigator.geolocation, lines 34-37.
GeoUnavailable ==
    /\ widget.geo.status = "pending"
    /\ widget' = [widget EXCEPT !.locationName = "Geo unavailable",
                                !.geo = [status |-> "unavailable", hour |-> 0]]
    /\ UNCHANGED <<backend, rec, dash, clock, localVars, remoteVars>>

\* getCurrentPosition succeeds, lines 39-43.
GeoFix ==
    /\ widget.geo.status = "pending"
    /\ \E hour \in Hours :
          widget' = [widget EXCEPT !.locationName = getContextualLocation(hour),
                                   !.geo = [status |-> "fix", hour |-> hour]]
    /\ UNCHANGED <<backend, rec, dash, clock, localVars, remoteVars>>

\* getCurrentPosition fails, lines 44-47.
GeoError ==
    /\ widget.geo.status = "pending"
    /\ widget' = [widget EXCEPT !.locationName = "Unknown Location",
                                !.geo = [status |-> "error", hour |-> 0]]
    /\ UNCHANGED <<backend, rec, dash, clock, localVars, remoteVars>>

\* A context button is clicked, lines 206-212: the buttons are shown while
\* the widget neither records nor processes.
SelectContext ==
    /\ widget.mounted /\ ~widget.isRecording /\ ~widget.isProcessing
    /\ \E tag \in ContextTags : widget' = [widget EXCEPT !.manualContext = tag]
    /\ UNCHANGED <<backend, rec, dash, clock, localVars, remoteVars>>

\* One capture:
\*   mic       none | pending | failed | acquired   (getUserMedia)
\*   releases  how many times the stream's tracks were stopped
\*   recorder  none | startFailed | recording | stopping | flushed | inactive
\*   timer     its setInterval is running
\*   flow      handleStop: none | awaitExtraction | empty | extractFailed |
\*             saveThrew | saved
\*   clip      the chunks handleStop put into the blob
\*   typedBy   the recorder whose mimeType handleStop gave the blob
\*   delivered the chunks with data this capture's recorder delivered
\*   the rest observes the flow for the claims
NoRec ==
    [mic |-> "none", releases |-> 0, recorder |-> "none", timer |-> FALSE,
     flow |-> "none", clip |-> <<>>, typedBy |-> 0, delivered |-> <<>>,
     extractions |-> 0,
     respOK |-> FALSE, built |-> FALSE, signalled |-> FALSE, err |-> NoMsg,
     wroteEntry |-> FALSE, wroteProfile |-> FALSE]

Started == {i \in DOMAIN rec : rec[i].mic # "none"}

\* The record button, lines 181-183: enabled unless processing or initializing.
ButtonEnabled ==
    widget.mounted /\ ~widget.isProcessing /\ ~widget.isInitializing

\* startRecording up to await getUserMedia, lines 65-69.
ClickStart ==
    /\ ButtonEnabled
    /\ ~widget.isRecording
    /\ Cardinality(Started) < Len(rec)
    /\ LET i == Cardinality(Started) + 1 IN
          rec' = [rec EXCEPT ![i].mic = "pending"]
    /\ widget' = [widget EXCEPT !.errorMsg = NoMsg, !.isInitializing = TRUE]
    /\ UNCHANGED <<backend, dash, clock, localVars, remoteVars>>

\* The catch block of startRecording, lines 91-96.
StartErrorMsg(name) ==
    IF name = "NotAllowedError" THEN MsgPermission
    ELSE IF name = "NotFoundError" THEN MsgNotFound
    ELSE MsgMicFailed

\* getUserMedia rejects, lines 91-99.
MicRejected(i) ==
    /\ rec[i].mic = "pending"
    /\ \E name \in {"NotAllowedError", "NotFoundError", "OtherError"} :
          /\ rec' = [rec EXCEPT ![i].mic = "failed", ![i].err = StartErrorMsg(name)]
          /\ widget' = [widget EXCEPT !.errorMsg = StartErrorMsg(name),
                                      !.isInitializing = FALSE]
    /\ UNCHANGED <<backend, dash, clock, localVars, remoteVars>>

\* getUserMedia resolves and startRecording runs on, lines 69-99.  The
\* MediaRecorder constructor or start() may throw: the catch block reports it.
\* The catch block releases nothing: the stream it had been given stays live.
MicGranted(i) ==
    /\ rec[i].mic = "pending"
    /\ \E outcome \in {"ok", "constructorThrows", "startThrows"} :
          IF outcome = "ok"
          THEN /\ rec' = [rec EXCEPT ![i].mic = "acquired",
                                     ![i].recorder = "recording",
                                     ![i].timer = TRUE]
               /\ widget' = [widget EXCEPT !.mediaRecorderRef = i,
                                           !.chunksRef = <<>>,
                                           !.isRecording = TRUE,
                                           !.timerRef = i,
                                           !.isInitializing = FALSE]
          ELSE /\ rec' = [rec EXCEPT ![i].mic = "acquired",
                                     ![i].recorder = "startFailed",
                                     ![i].err = MsgMicFailed]
               /\ widget' = [widget EXCEPT
                     !.mediaRecorderRef =
                         IF outcome = "startThrows" THEN i ELSE @,
                     !.chunksRef = IF outcome = "startThrows" THEN <<>> ELSE @,
                     !.errorMsg = MsgMicFailed,
                     !.isInitializing = FALSE]
    /\ UNCHANGED <<backend, dash, clock, localVars, remoteVars>>

\* A mutant of StopRecording: the tracks of the stream are not stopped.
StopRecordingKeepsStream ==
    LET r == widget.mediaRecorderRef IN
    IF r # 0 /\ widget.isRecording /\ rec[r].recorder = "recording"
    THEN /\ rec' = [rec EXCEPT ![r].recorder = "stopping",
                               ![widget.timerRef].timer = FALSE]
         /\ widget' = [widget EXCEPT !.isRecording = FALSE]
    ELSE UNCHANGED <<rec, widget>>

\* stopRecording, lines 102-110: nothing unless there is a recorder and
\* isRecording is set.  stop() on a recorder that is not recording throws and
\* the rest of the handler does not run.
StopRecording ==
    LET r == widget.mediaRecorderRef IN
    IF r # 0 /\ widget.isRecording /\ rec[r].recorder = "recording"
    THEN /\ rec' = [rec EXCEPT
               ![r].recorder = "stopping",
               ![r].releases = @ + 1,
               ![widget.timerRef].timer = FALSE]
         /\ widget' = [widget EXCEPT !.isRecording = FALSE]
    ELSE UNCHANGED <<rec, widget>>

\* The button runs stopRecording while isRecording is set, lines 181-183.
ClickStop ==
    /\ ButtonEnabled
    /\ widget.isRecording
    /\ widget.mediaRecorderRef # 0
    /\ StopRecording
    /\ UNCHANGED <<backend, dash, clock, localVars, remoteVars>>

\* stopRecording called whatever the state of the widget is.
StopRecordingCalled ==
    /\ StopRecording
    /\ UNCHANGED <<backend, dash, clock, localVars, remoteVars>>

\* The recorder's dataavailable event after stop(), lines 77-79: a chunk is
\* kept only when it has data.
RecorderDataAvailable(i) ==
    /\ rec[i].recorder = "stopping"
    /\ \E size \in {0, 1} :
          /\ widget' = [widget EXCEPT
                !.chunksRef = IF size > 0 THEN Append(@, i) ELSE @]
          /\ rec' = [rec EXCEPT
                ![i].recorder = "flushed",
                ![i].delivered = IF size > 0 THEN Append(@, i) ELSE @]
    /\ UNCHANGED <<backend, dash, clock, localVars, remoteVars>>

\* A mutant of ClipIsEmpty: the size check is missing.
ClipNeverEmpty(chunks) == FALSE

\* audioBlob.size === 0, lines 118-120: the blob is the chunks concatenated,
\* and every chunk kept has data.
ClipIsEmpty(chunks) == Len(chunks) = 0

\* The recorder's stop event: handleStop up to await processAudioJournal,
\* lines 112-134.
RecorderStop(i) ==
    /\ rec[i].recorder = "flushed"
    /\ IF ClipIsEmpty(widget.chunksRef)
       THEN /\ rec' = [rec EXCEPT ![i].recorder = "inactive",
                                  ![i].flow = "empty",
                                  ![i].clip = widget.chunksRef,
                                  ![i].typedBy = widget.mediaRecorderRef,
                                  ![i].err = MsgEmpty]
            /\ widget' = [widget EXCEPT !.errorMsg = MsgEmpty,
                                        !.isProcessing = FALSE]
       ELSE /\ rec' = [rec EXCEPT ![i].recorder = "inactive",
                                  ![i].flow = "awaitExtraction",
                                  ![i].clip = widget.chunksRef,
                                  ![i].typedBy = widget.mediaRecorderRef,
                                  ![i].extractions = @ + 1]
            /\ widget' = [widget EXCEPT !.errorMsg = NoMsg,
                                        !.isProcessing = TRUE]
    /\ UNCHANGED <<backend, dash, clock, localVars, remoteVars>>

\* const newEntry: JournalEntry = {...}, lines 136-143.
NewEntry(i, metadata) == Entry(FlowEntryIds[i], clock, metadata)

\* processAudioJournal throws: the catch and finally of handleStop, lines
\* 147-152.  The message shown is error.message, or the default when it has
\* none: MsgProcessing stands for either.
ExtractionFails(i) ==
    /\ rec[i].flow = "awaitExtraction"
    /\ \E response \in Responses :
          /\ ProcessAudioJournalThrows(response)
          /\ rec' = [rec EXCEPT ![i].flow = "extractFailed",
                                ![i].err = MsgProcessing]
    /\ widget' = [widget EXCEPT !.errorMsg = MsgProcessing, !.isProcessing = FALSE]
    /\ UNCHANGED <<backend, dash, clock, localVars, remoteVars>>

\* processAudioJournal returns and the widget is built with the on-device
\* store, lines 136-152: saveEntry runs to its end, or throws into the catch.
ExtractionReturnsLocal(i) ==
    /\ rec[i].flow = "awaitExtraction"
    /\ backend = "local"
    /\ \E response \in Responses, failAt \in {"none", "entry", "profile"} :
          /\ ~ProcessAudioJournalThrows(response)
          /\ LocalSaveEntryEffect(NewEntry(i, response.payload), failAt)
          /\ rec' = [rec EXCEPT
                ![i].flow = IF lastOp'.threw THEN "saveThrew" ELSE "saved",
                ![i].respOK = MatchesShape(response.payload),
                ![i].built = TRUE,
                ![i].wroteEntry = lsEntries' # lsEntries,
                ![i].wroteProfile = lsProfile' # lsProfile,
                ![i].signalled = ~lastOp'.threw,
                ![i].err = IF lastOp'.threw THEN MsgProcessing ELSE @]
          /\ widget' = [widget EXCEPT
                !.errorMsg = IF lastOp'.threw THEN MsgProcessing ELSE @,
                !.mounted = IF lastOp'.threw THEN @ ELSE FALSE,
                !.isProcessing = FALSE]
    /\ UNCHANGED <<backend, dash, clock, remoteVars>>

\* processAudioJournal returns and the widget is built with the remote
\* store, lines 136-152: saveEntry(newEntry) is not awaited, so it returns a
\* promise at its first await and onEntrySaved() runs at once.
ExtractionReturnsRemote(i) ==
    /\ rec[i].flow = "awaitExtraction"
    /\ backend = "remote"
    /\ \E response \in Responses :
          /\ ~ProcessAudioJournalThrows(response)
          /\ calls' = [calls EXCEPT ![i] =
                Call(IF currentUser THEN "entryWrite" ELSE "failed", "saveEntry",
                     NewEntry(i, response.payload),
                     response.payload.extractedFacts)]
          /\ rec' = [rec EXCEPT
                ![i].flow = "saved",
                ![i].respOK = MatchesShape(response.payload),
                ![i].built = TRUE,
                ![i].signalled = TRUE]
    /\ widget' = [widget EXCEPT !.mounted = FALSE, !.isProcessing = FALSE]
    /\ UNCHANGED <<backend, dash, clock, localVars, fsEntries, fsProfile, currentUser,
                   writeCount, callsLeft>>

\* No continuation of the widget is pending.  widget holds the state and refs
\* of the one instance whose handlers are running; a fresh instance is mounted
\* only when the old one has none left.
Quiescent ==
    \A i \in DOMAIN rec :
        /\ rec[i].mic # "pending"
        /\ rec[i].recorder \notin {"recording", "stopping", "flushed"}
        /\ rec[i].flow # "awaitExtraction"

\* The dock's Memory button, App.tsx lines 146-147: the widget is unmounted.
\* The component has no cleanup effect: nothing is stopped or released.
Unmount ==
    /\ widget.mounted
    /\ Cardinality(Started) > 0
    /\ widget' = [widget EXCEPT !.mounted = FALSE]
    /\ UNCHANGED <<backend, dash, rec, clock, localVars, remoteVars>>

\* The dock's Record button, App.tsx lines 136-137: a fresh widget is mounted.
Remount ==
    /\ ~widget.mounted
    /\ Quiescent
    /\ widget' = InitialWidget
    /\ UNCHANGED <<backend, dash, rec, clock, localVars, remoteVars>>

(***************************************************************************)
(* The insights dashboard (components/InsightsDashboard.tsx) and the        *)
(* historical query it issues (analyzeHistory).                             *)
(***************************************************************************)
MsgNeedEntries == "I need some journal entries before I can analyze your history. Try recording a few thoughts first!"
MsgNoAnalysis == "I couldn't analyze the data at this moment."
MsgSystemError == "System Error: Could not complete analysis."

\* What the user may have typed in the query box: nothing, blanks, text.
Queries == {"", " ", "q", "k"}
\* query.trim()
Trim(q) == IF q = " " THEN "" ELSE q

NoRequest == [sent |-> FALSE]
\* The prompt handed to generateContent, reduced to its three interpolations.
Request(coreMemories, contextData, userQuery) ==
    [sent |-> TRUE, coreMemories |-> coreMemories, contextData |-> contextData,
     userQuery |-> userQuery]

\* useState initial values, lines 8-13, and nothing in flight.
\*   pending       analyzeHistory is suspended at await generateContent
\*   request       the last prompt sent to the analysis service
\*   settled       how the last analyzeHistory call ended: none | fulfilled |
\*                 rejected
\*   escaped       an exception left handleAnalyze
\*   serviceCalls, profileReads, submits   count what the query path did
InitialDashboard ==
    [entries |-> <<>>, query |-> "", isLoading |-> TRUE, isAnalyzing |-> FALSE,
     analysisResult |-> NoMsg, pending |-> FALSE, request |-> NoRequest,
     settled |-> "none", escaped |-> FALSE,
     serviceCalls |-> 0, profileReads |-> 0, submits |-> 0]

\* getEntries() of the store the application is built with.
GetEntries(getDocsOK) ==
    IF backend = "local" THEN LocalGetEntries ELSE RemoteGetEntries(getDocsOK)

\* loadData, lines 21-35.
DashLoadData ==
    /\ dash.isLoading
    /\ \E getDocsOK \in BOOLEAN :
          dash' = [dash EXCEPT !.entries = GetEntries(getDocsOK), !.isLoading = FALSE]
    /\ UNCHANGED <<backend, widget, rec, clock, localVars, remoteVars>>

\* handleClear, lines 70-76: behind a confirm dialog, await clearHistory(),
\* then loadData(), which sets isLoading and reads the store again.  When
\* clearHistory throws, handleClear rejects and nothing is reloaded.
DashHandleClear ==
    /\ \E confirmed \in BOOLEAN :
          IF confirmed /\ (backend = "local" \/ currentUser)
          THEN /\ IF backend = "local"
                  THEN LocalClearHistoryEffect /\ UNCHANGED <<fsEntries, fsProfile>>
                  ELSE RemoteClearHistoryEffect /\ UNCHANGED localVars
               /\ dash' = [dash EXCEPT !.isLoading = TRUE]
          ELSE UNCHANGED <<localVars, fsEntries, fsProfile, dash>>
    /\ UNCHANGED <<backend, widget, rec, clock, currentUser, calls, writeCount, callsLeft>>

\* A promise that has not been awaited: it has no coreMemories property.
PendingPromise == [kind |-> "promise"]

\* const userProfile = getUserProfile(), line 209: the value the call
\* returns synchronously.  The on-device getUserProfile returns the profile;
\* the remote one is an async function and returns a promise.
UserProfileValue ==
    IF backend = "local" THEN LocalGetUserProfile ELSE PendingPromise

\* JSON.stringify(userProfile.coreMemories, null, 2), line 235.
StringifyCoreMemories(userProfile) ==
    IF userProfile.kind = "profile" THEN Arr(userProfile.coreMemories) ELSE Undef

\* history.map(h => ({date, location, summary, keyEvents, psych})), lines 212-223.
ContextData(history) ==
    [k \in DOMAIN history |->
        [entry |-> history[k].id,
         psych |-> [valence |-> history[k].metadata.valence,
                    arousal |-> history[k].metadata.arousal]]]

\* What one call of analyzeHistory has done when it first yields.
Yield(state, value, reads, request) ==
    [state |-> state, value |-> value, reads |-> reads, request |-> request]

\* A mutant of AnalyzeHistoryCall: the empty history is not turned away.
AnalyzeHistoryCallUnguarded(history, userQuery, clientThrows) ==
    IF clientThrows THEN Yield("rejected", NoMsg, 0, NoRequest)
    ELSE Yield("awaiting", NoMsg, 1,
               Request(StringifyCoreMemories(UserProfileValue),
                       ContextData(history), userQuery))

\* analyzeHistory up to await generateContent, lines 200-252.
AnalyzeHistoryCall(history, userQuery, clientThrows) ==
    IF Len(history) = 0 THEN Yield("fulfilled", MsgNeedEntries, 0, NoRequest)
    ELSE IF clientThrows THEN Yield("rejected", NoMsg, 0, NoRequest)
    ELSE Yield("awaiting", NoMsg, 1,
               Request(StringifyCoreMemories(UserProfileValue),
                       ContextData(history), userQuery))

\* What generateContent may do: reject, or resolve with a response.
ServiceOutcomes ==
    {[kind |-> "rejected", text |-> ""],
     [kind |-> "response", text |-> ""],
     [kind |-> "response", text |-> "analysis"]}

\* analyzeHistory after the await, lines 252-260.
AnalyzeHistoryResume(outcome) ==
    IF outcome.kind = "rejected" THEN Yield("rejected", NoMsg, 0, NoRequest)
    ELSE Yield("fulfilled",
               IF outcome.text = "" THEN MsgNoAnalysis ELSE outcome.text,
               0, NoRequest)

\* A mutant of HandleAnalyzeSettled: the handler has no catch clause.
HandleAnalyzeUncaught(d, settled) ==
    [d EXCEPT !.analysisResult = IF settled.state = "fulfilled" THEN settled.value ELSE @,
              !.escaped = settled.state = "rejected",
              !.settled = settled.state,
              !.isAnalyzing = FALSE,
              !.pending = FALSE]

\* handleAnalyze once analyzeHistory has settled, lines 44-54.
HandleAnalyzeSettled(d, settled) ==
    [d EXCEPT !.analysisResult = IF settled.state = "fulfilled" THEN settled.value
                                  ELSE MsgSystemError,
              !.settled = settled.state,
              !.isAnalyzing = FALSE,
              !.pending = FALSE]

\* The form is submitted, lines 186-196 and 37-43: handleAnalyze runs up to
\* the point where analyzeHistory yields.
DashSubmit ==
    /\ ~dash.isLoading
    /\ ~dash.isAnalyzing
    /\ dash.submits < MaxQueries
    /\ \E q \in Queries \ {""}, clientThrows \in BOOLEAN :
          IF Trim(q) = "" THEN dash' = [dash EXCEPT !.submits = @ + 1, !.query = q]
          ELSE LET y == AnalyzeHistoryCall(dash.entries, q, clientThrows)
                   d == [dash EXCEPT !.submits = @ + 1,
                                     !.query = q,
                                     !.isAnalyzing = TRUE,
                                     !.analysisResult = NoMsg,
                                     !.profileReads = @ + y.reads,
                                     !.settled = "none",
                                     !.escaped = FALSE]
               IN  IF y.state = "awaiting"
                   THEN dash' = [d EXCEPT !.pending = TRUE,
                                          !.request = y.request,
                                          !.serviceCalls = @ + 1]
                   ELSE dash' = HandleAnalyzeSettled(d, y)
    /\ UNCHANGED <<backend, widget, rec, clock, localVars, remoteVars>>

\* generateContent returns, lines 252-260, and handleAnalyze finishes.
DashServiceReturns ==
    /\ dash.pending
    /\ \E outcome \in ServiceOutcomes :
          dash' = HandleAnalyzeSettled(dash, AnalyzeHistoryResume(outcome))
    /\ UNCHANGED <<backend, widget, rec, clock, localVars, remoteVars>>

NoOp == OpRecord("none", Undef, FALSE)

InitLocalVars ==
    /\ lsEntries = NoItem
    /\ lsProfile = NoItem
    /\ lastOp = NoOp

InitRemoteVars ==
    /\ fsEntries = {}
    /\ fsProfile = NoDoc
    /\ currentUser = TRUE
    /\ calls = [p \in Callers |-> IdleCall]
    /\ writeCount = 0
    /\ callsLeft = 0

InitFlowVars ==
    /\ backend = "local"
    /\ widget = InitialWidget
    /\ rec = [i \in Recordings |-> NoRec]
    /\ dash = InitialDashboard

InitLocal ==
    /\ InitLocalVars
    /\ InitRemoteVars
    /\ InitFlowVars
    /\ clock = 0

NextLocal ==
    \/ LocalSaveEntry
    \/ LocalUpdateUserProfile
    \/ LocalClearHistory
    \/ LocalImportData

SpecLocal == InitLocal /\ [][NextLocal]_vars

InitRemote ==
    /\ InitLocalVars
    /\ InitFlowVars
    /\ fsEntries = {}
    /\ fsProfile = NoDoc
    /\ currentUser \in BOOLEAN
    /\ calls = [p \in Callers |-> IdleCall]
    /\ writeCount = 0
    /\ callsLeft = MaxCalls
    /\ clock = 0

NextRemote ==
    \/ \E p \in Callers : RemoteInvokeSaveEntry(p)
    \/ \E p \in Callers : RemoteEntryWrite(p)
    \/ \E p \in Callers : RemoteInvokeUpdateUserProfile(p)
    \/ \E p \in Callers : RemoteProfileRead(p)
    \/ \E p \in Callers : RemoteProfileWrite(p)

SpecRemote == InitRemote /\ [][NextRemote]_vars

InitFlow ==
    /\ InitLocalVars
    /\ fsEntries = {}
    /\ fsProfile = NoDoc
    /\ currentUser = TRUE
    /\ calls = [p \in Recordings |-> IdleCall]
    /\ writeCount = 0
    /\ callsLeft = 0
    /\ clock = 0
    /\ backend \in {"local", "remote"}
    /\ widget = InitialWidget
    /\ rec = [i \in Recordings |-> NoRec]
    /\ dash = InitialDashboard

NextFlow ==
    \/ ClickStart
    \/ \E i \in Recordings : MicRejected(i)
    \/ \E i \in Recordings : MicGranted(i)
    \/ ClickStop
    \/ \E i \in Recordings : RecorderDataAvailable(i)
    \/ \E i \in Recordings : RecorderStop(i)
    \/ \E i \in Recordings : ExtractionFails(i)
    \/ \E i \in Recordings : ExtractionReturnsLocal(i)
    \/ \E i \in Recordings : ExtractionReturnsRemote(i)
    \/ \E i \in Recordings : RemoteEntryWrite(i)
    \/ \E i \in Recordings : RemoteProfileRead(i)
    \/ \E i \in Recordings : RemoteProfileWrite(i)
    \/ Unmount
    \/ Remount

SpecFlow == InitFlow /\ [][NextFlow]_vars

\* The on-device store filled by saveEntry alone, past its retention cap.
NextCap == LocalSaveNextEntry

SpecCap == InitLocal /\ [][NextCap]_vars

\* getUserProfile over what either store may hold when the application starts.
StoredProfiles == {Profile(core, 0) : core \in {<<>>, <<"A">>, <<"a", "B">>}}

InitRead ==
    /\ lsEntries = NoItem
    /\ lastOp = NoOp
    /\ fsEntries = {}
    /\ calls = [p \in Callers |-> IdleCall]
    /\ writeCount = 0
    /\ callsLeft = MaxCalls
    /\ clock = 0
    /\ InitFlowVars
    /\ lsProfile \in {NoItem, GarbageItem}
                      \cup {JSONstringify(pr) : pr \in StoredProfiles \cup {MalformedProfile}}
    /\ fsProfile \in {NoDoc} \cup {Doc(pr) : pr \in StoredProfiles}
    /\ currentUser \in BOOLEAN

NextRead ==
    \/ LocalReadUserProfile
    \/ \E p \in Callers : RemoteInvokeGetUserProfile(p)
    \/ \E p \in Callers : RemoteProfileRead(p)

SpecRead == InitRead /\ [][NextRead]_vars

\* The on-device store with its export and import, time passing.
NextPort ==
    \/ LocalSaveEntry
    \/ LocalClearHistory
    \/ LocalImportData
    \/ LocalRoundTrip

SpecPort == InitLocal /\ [][NextPort]_vars

\* Either store behind the services/storage API: the application is built
\* with one of them, and its calls run against that one.
InitStore ==
    /\ InitLocalVars
    /\ fsEntries = {}
    /\ fsProfile = NoDoc
    /\ currentUser \in BOOLEAN
    /\ calls = [p \in Callers |-> IdleCall]
    /\ writeCount = 0
    /\ callsLeft = MaxCalls
    /\ clock = 0
    /\ backend \in {"local", "remote"}
    /\ widget = InitialWidget
    /\ rec = [i \in Recordings |-> NoRec]
    /\ dash = InitialDashboard

NextStore ==
    \/ backend = "local" /\ LocalSaveEntry
    \/ backend = "local" /\ LocalUpdateUserProfile
    \/ backend = "local" /\ LocalClearHistory
    \/ backend = "local" /\ LocalImportData
    \/ backend = "remote" /\ \E p \in Callers : RemoteInvokeSaveEntry(p)
    \/ backend = "remote" /\ \E p \in Callers : RemoteEntryWrite(p)
    \/ backend = "remote" /\ \E p \in Callers : RemoteInvokeUpdateUserProfile(p)
    \/ backend = "remote" /\ \E p \in Callers : RemoteProfileRead(p)
    \/ backend = "remote" /\ \E p \in Callers : RemoteProfileWrite(p)

SpecStore == InitStore /\ [][NextStore]_vars

\* The dashboard over what either store may hold: the stored history and
\* profile are there when it mounts; it loads them and answers queries.
StoredHistories ==
    {<<>>,
     <<Entry("e1", 1, Metadata(Arr(<<"A">>), "valid", 0, 0))>>,
     <<Entry("e2", 2, Metadata(Arr(<<"a", "B">>), "valid", 1, 1)),
       Entry("e1", 1, Metadata(Arr(<<"A">>), "valid", 0, 0))>>}

InitQuery ==
    /\ lastOp = NoOp
    /\ calls = [p \in Callers |-> IdleCall]
    /\ writeCount = 0
    /\ callsLeft = 0
    /\ clock = 0
    /\ currentUser = TRUE
    /\ widget = InitialWidget
    /\ rec = [i \in Recordings |-> NoRec]
    /\ dash = InitialDashboard
    /\ backend \in {"local", "remote"}
    /\ \E h \in StoredHistories, pr \in StoredProfiles :
          IF backend = "local"
          THEN /\ lsEntries = (IF h = <<>> THEN NoItem ELSE JSONstringify(h))
               /\ lsProfile = JSONstringify(pr)
               /\ fsEntries = {}
               /\ fsProfile = NoDoc
          ELSE /\ lsEntries = NoItem
               /\ lsProfile = NoItem
               /\ fsEntries = Range(h)
               /\ fsProfile = Doc(pr)

NextQuery ==
    \/ DashLoadData
    \/ DashSubmit
    \/ DashServiceReturns

SpecQuery == InitQuery /\ [][NextQuery]_vars

\* Either store under saveEntry and updateUserProfile alone, the on-device
\* one saved past its retention cap.  On the device the profile is updated
\* on its own among the first saves.
NextKeep ==
    \/ backend = "local" /\ LocalSaveNextEntry
    \/ backend = "local" /\ clock <= MaxClock /\ LocalUpdateUserProfile
    \/ backend = "remote" /\ \E p \in Callers : RemoteInvokeSaveEntry(p)
    \/ backend = "remote" /\ \E p \in Callers : RemoteEntryWrite(p)
    \/ backend = "remote" /\ \E p \in Callers : RemoteInvokeUpdateUserProfile(p)
    \/ backend = "remote" /\ \E p \in Callers : RemoteProfileRead(p)
    \/ backend = "remote" /\ \E p \in Callers : RemoteProfileWrite(p)

SpecKeep == InitStore /\ [][NextKeep]_vars

\* The recorder widget with stopRecording called at any time, not only by
\* the button; a stopped recorder delivers its dataavailable and stop events.
NextStop ==
    \/ NextFlow
    \/ StopRecordingCalled

FairStop ==
    \A i \in Recordings :
        /\ WF_vars(RecorderDataAvailable(i))
        /\ WF_vars(RecorderStop(i))

SpecStop == InitFlow /\ [][NextStop]_vars /\ FairStop

\* The recorder widget with room for a capture started after the first.
InitRestart ==
    /\ InitLocalVars
    /\ fsEntries = {}
    /\ fsProfile = NoDoc
    /\ currentUser = TRUE
    /\ calls = [p \in 1..MaxRestarts |-> IdleCall]
    /\ writeCount = 0
    /\ callsLeft = 0
    /\ clock = 0
    /\ backend \in {"local", "remote"}
    /\ widget = InitialWidget
    /\ rec = [i \in 1..MaxRestarts |-> NoRec]
    /\ dash = InitialDashboard

NextRestart ==
    \/ ClickStart
    \/ \E i \in DOMAIN rec : MicRejected(i)
    \/ \E i \in DOMAIN rec : MicGranted(i)
    \/ ClickStop
    \/ \E i \in DOMAIN rec : RecorderDataAvailable(i)
    \/ \E i \in DOMAIN rec : RecorderStop(i)
    \/ \E i \in DOMAIN rec : ExtractionFails(i)
    \/ \E i \in DOMAIN rec : ExtractionReturnsLocal(i)
    \/ \E i \in DOMAIN rec : ExtractionReturnsRemote(i)
    \/ \E i \in DOMAIN rec : RemoteEntryWrite(i)
    \/ \E i \in DOMAIN rec : RemoteProfileRead(i)
    \/ \E i \in DOMAIN rec : RemoteProfileWrite(i)
    \/ Unmount
    \/ Remount

SpecRestart == InitRestart /\ [][NextRestart]_vars

\* The same with what the platform and the services owe the widget: a
\* microphone request is answered, a stopped recorder delivers its
\* dataavailable and stop events, an extraction call returns; and a user who
\* is recording presses stop when the button lets them.
FairRestart ==
    /\ WF_vars(ClickStop)
    /\ \A i \in 1..MaxRestarts :
          /\ WF_vars(MicRejected(i) \/ MicGranted(i))
          /\ WF_vars(RecorderDataAvailable(i))
          /\ WF_vars(RecorderStop(i))
          /\ WF_vars(ExtractionFails(i) \/ ExtractionReturnsLocal(i)
                         \/ ExtractionReturnsRemote(i))

SpecRestartFair == SpecRestart /\ FairRestart

\* The recorder widget resolving its location label, with either
\* services/storage supplying getContextualLocation.
NextLocation ==
    \/ GeoUnavailable
    \/ GeoFix
    \/ GeoError
    \/ SelectContext

SpecLocation == InitFlow /\ [][NextLocation]_vars

\* The on-device store under saveEntry, importData of backups and
\* clearHistory, saved past its retention cap.  Backups are imported and the
\* history is cleared among the first saves.
NextBackup ==
    \/ LocalSaveNextEntry
    \/ clock <= MaxClock /\ LocalImportBackup
    \/ clock <= MaxClock /\ LocalClearHistory

SpecBackup == InitLocal /\ [][NextBackup]_vars

\* updateUserProfile on either store while time passes; on the remote store
\* the calls of two callers overlap.
InitClock ==
    /\ InitLocalVars
    /\ fsEntries = {}
    /\ fsProfile = NoDoc
    /\ currentUser = TRUE
    /\ calls = [p \in Callers |-> IdleCall]
    /\ writeCount = 0
    /\ callsLeft = MaxCalls
    /\ clock = 0
    /\ backend \in {"local", "remote"}
    /\ widget = InitialWidget
    /\ rec = [i \in Recordings |-> NoRec]
    /\ dash = InitialDashboard

NextClock ==
    \/ Tick
    \/ backend = "local" /\ LocalUpdateUserProfile
    \/ backend = "remote" /\ \E p \in Callers : RemoteInvokeUpdateUserProfile(p)
    \/ backend = "remote" /\ \E p \in Callers : RemoteProfileRead(p)
    \/ backend = "remote" /\ \E p \in Callers : RemoteProfileWrite(p)

SpecClock == InitClock /\ [][NextClock]_vars

\* Both stores side by side, empty at first, given the same saveEntry calls.
NextBoth == BothSaveEntry

SpecBoth == InitLocal /\ [][NextBoth]_vars

\* The remote store of an account, with or without the user signed in: the
\* account's documents are there from earlier sessions, the storage calls
\* run against them and the dashboard loads and wipes.
AccountHistory ==
    <<Entry("e2", 2, Metadata(Arr(<<"a", "B">>), "valid", 1, 1)),
      Entry("e1", 1, Metadata(Arr(<<"A">>), "valid", 0, 0))>>

InitAccount ==
    /\ InitLocalVars
    /\ currentUser \in BOOLEAN
    /\ \/ fsEntries = {} /\ fsProfile = NoDoc
       \/ fsEntries = Range(AccountHistory) /\ fsProfile = Doc(Profile(<<"A">>, 0))
    /\ calls = [p \in Callers |-> IdleCall]
    /\ writeCount = 0
    /\ callsLeft = MaxAccountCalls
    /\ clock = 0
    /\ backend = "remote"
    /\ widget = InitialWidget
    /\ rec = [i \in Recordings |-> NoRec]
    /\ dash = InitialDashboard

NextAccount ==
    \/ \E p \in Callers : RemoteInvokeSaveEntry(p)
    \/ \E p \in Callers : RemoteEntryWrite(p)
    \/ \E p \in Callers : RemoteInvokeUpdateUserProfile(p)
    \/ \E p \in Callers : RemoteInvokeGetUserProfile(p)
    \/ \E p \in Callers : RemoteProfileRead(p)
    \/ \E p \in Callers : RemoteProfileWrite(p)
    \/ \E p \in Callers : RemoteClearHistory(p)
    \/ DashLoadData
    \/ DashHandleClear

SpecAccount == InitAccount /\ [][NextAccount]_vars

(***************************************************************************)
(* The claims.                                                             *)
(***************************************************************************)
Wrote(c) == c.pc = "done" /\ c.writeVer > 0

\* C1: on the remote backend two updateUserProfile calls in flight together
\* can lose one side's facts.  Whenever call q read the profile before call p
\* wrote it and q wrote last, the stored coreMemories is q's full set (what q
\* read together with q's facts), and a fact of p that q neither read nor
\* brought is not in it: last writer wins, not the union.
C1_LastWriterWins ==
    \A p \in DOMAIN calls, q \in DOMAIN calls :
        ( /\ p # q
          /\ Wrote(calls[p]) /\ Wrote(calls[q])
          /\ calls[q].writeVer = writeCount
          /\ calls[p].writeVer < calls[q].writeVer
          /\ calls[q].readOK
          /\ calls[q].readVer < calls[p].writeVer )
        => LET full == Range(calls[q].read) \cup Range(calls[q].facts.v) IN
           /\ Range(StoredCore) = full
           /\ \A f \in Range(calls[p].facts.v) \ full : f \notin Range(StoredCore)

\* C1, the case: both calls are updateUserProfile with disjoint non-empty
\* facts, both read the same non-empty start set before either wrote, both
\* completed, and the stored profile lacks a fact of the first writer.
C1_LostUpdateReached ==
    \E p \in DOMAIN calls, q \in DOMAIN calls :
        /\ p # q
        /\ calls[p].op = "updateUserProfile" /\ calls[q].op = "updateUserProfile"
        /\ Wrote(calls[p]) /\ Wrote(calls[q])
        /\ Range(calls[p].facts.v) \cap Range(calls[q].facts.v) = {}
        /\ calls[p].readOK /\ calls[q].readOK
        /\ calls[p].read = calls[q].read /\ calls[p].read # <<>>
        /\ calls[p].readVer = calls[q].readVer
        /\ calls[p].writeVer = calls[q].readVer + 1
        /\ calls[q].writeVer = calls[p].writeVer + 1
        /\ calls[q].writeVer = writeCount
        /\ \E f \in Range(calls[p].facts.v) : f \notin Range(StoredCore)
        /\ Range(StoredCore) #
              Range(calls[p].read) \cup Range(calls[p].facts.v) \cup Range(calls[q].facts.v)

\* C2: a completed updateUserProfile(F) with non-empty F and nothing
\* interleaved leaves coreMemories holding exactly the strings of the profile
\* S stored before it together with the strings of F, each once.  Stated for
\* the remote backend with a single caller, the other never invoked.
C2_UpdateStoresUnion ==
    \A p \in DOMAIN calls :
        ( /\ \A q \in DOMAIN calls \ {p} : calls[q] = IdleCall
          /\ calls[p].op = "updateUserProfile"
          /\ Wrote(calls[p])
          /\ calls[p].writeVer = writeCount )
        => /\ Range(StoredCore) = Range(calls[p].pre) \cup Range(calls[p].facts.v)
           /\ NoDuplicates(StoredCore)

\* C3: merge is idempotent: updateUserProfile(F) run a second time, right
\* after a first updateUserProfile(F) has completed, leaves the coreMemories
\* set as the first run left it.  Stated for the remote backend: call p is
\* invoked after call r has written, with the same facts, r itself ran with
\* no write in between, and nothing else writes before p does.
C3_SecondRunChangesNothing ==
    \A p \in DOMAIN calls, r \in DOMAIN calls :
        ( /\ p # r
          /\ calls[p].op = "updateUserProfile" /\ calls[r].op = "updateUserProfile"
          /\ Wrote(calls[p]) /\ Wrote(calls[r])
          /\ calls[p].facts = calls[r].facts
          /\ calls[r].invokedVer = calls[r].writeVer - 1
          /\ calls[p].invokedVer = calls[r].writeVer
          /\ calls[p].writeVer = calls[r].writeVer + 1
          /\ calls[p].writeVer = writeCount )
        => Range(StoredCore) = Range(calls[p].pre)

\* C4: on the on-device backend, after any sequence of saveEntry,
\* updateUserProfile, importData and clearHistory, the stored profile's
\* coreMemories holds no string twice.
C4_NoDuplicateFacts ==
    (lsProfile.present /\ JSONparse(lsProfile).kind = "profile")
        => NoDuplicates(JSONparse(lsProfile).coreMemories)

\* A store write of flow i is still pending (remote backend).
WritePending(i) == calls[i].pc \in {"entryWrite", "profileRead", "profileWrite"}

\* C5: onEntrySaved is raised only after the extraction call has returned,
\* the entry write has completed and the profile merge has completed: never
\* while a store write of that flow is pending, on either backend.
C5_SignalAfterWrites ==
    \A i \in Recordings :
        rec[i].signalled =>
            /\ rec[i].built
            /\ backend = "local" => rec[i].wroteEntry
            /\ backend = "remote" => ~WritePending(i)

\* The entry write or the profile write of flow i's saveEntry failed.
SaveFailed(i) ==
    \/ backend = "local" /\ rec[i].flow = "saveThrew"
    \/ backend = "remote" /\ calls[i].op = "saveEntry" /\ calls[i].pc = "failed"

\* C6: when the entry write or the profile write of saveEntry fails, the
\* flow shows an error and does not raise onEntrySaved, on either backend.
C6_WriteFailureReachesFlow ==
    \A i \in Recordings :
        SaveFailed(i) => rec[i].err # NoMsg /\ ~rec[i].signalled

\* The extraction call of flow i has settled.
ExtractionSettled(i) == rec[i].flow \in {"extractFailed", "saveThrew", "saved"}

\* C7: when the service returns no payload, or one that does not match the
\* required shape, processAudioJournal fails, no entry is constructed and no
\* store write occurs in that flow.
C7_BadPayloadRejected ==
    \A i \in Recordings :
        (ExtractionSettled(i) /\ ~rec[i].respOK) =>
            /\ rec[i].flow = "extractFailed"
            /\ ~rec[i].built
            /\ ~rec[i].wroteEntry /\ ~rec[i].wroteProfile
            /\ calls[i] = IdleCall

\* C8: every persisted entry has valence in [-1.0, 1.0] and arousal in
\* [0.0, 1.0], in either store.
C8_PersistedInRange ==
    /\ \A k \in DOMAIN LocalGetEntries : InRange(LocalGetEntries[k].metadata)
    /\ \A d \in fsEntries : InRange(d.metadata)

\* C9: when a recording is stopped and the clip has zero length, the flow
\* reports the error, makes no extraction call and no store write, and the
\* controller leaves Processing.  The stop event of a recording with an empty
\* clip ends the flow as "empty" with the message shown, isProcessing false
\* and the stores untouched; a flow ended so has called nothing downstream.
C9_EmptyClipStopsFlow ==
    /\ [](\A i \in Recordings :
            rec[i].flow = "empty" =>
                /\ rec[i].clip = <<>>
                /\ rec[i].extractions = 0
                /\ ~rec[i].built /\ ~rec[i].signalled
                /\ ~rec[i].wroteEntry /\ ~rec[i].wroteProfile
                /\ calls[i] = IdleCall
                /\ rec[i].err = MsgEmpty)
    /\ [][\A i \in Recordings :
            (rec[i].recorder = "flushed" /\ rec'[i].recorder = "inactive"
                /\ widget.chunksRef = <<>>)
            => /\ rec'[i].flow = "empty"
               /\ widget'.errorMsg = MsgEmpty
               /\ ~widget'.isProcessing
               /\ UNCHANGED <<localVars, remoteVars>>]_vars

\* C9, the case: a recording was stopped with no data and its flow ended.
C9_EmptyClipReached ==
    \E i \in Recordings :
        /\ rec[i].flow = "empty"
        /\ rec[i].recorder = "inactive"
        /\ rec[i].releases = 1

\* The capture of stream i has been left: the start failed after the stream
\* was acquired, the recording was stopped, or the widget was unmounted.
CaptureLeft(i) ==
    /\ rec[i].mic = "acquired"
    /\ \/ rec[i].recorder \in {"startFailed", "stopping", "flushed", "inactive"}
       \/ ~widget.mounted

\* C10: every acquired microphone stream is released exactly once on every
\* path that leaves the capture, and never twice.
C10_StreamReleasedOnce ==
    \A i \in Recordings :
        /\ rec[i].releases <= 1
        /\ CaptureLeft(i) => rec[i].releases = 1

\* C11: in saveEntry on both backends the entry write happens before the
\* profile merge, the merge is given exactly entry.metadata.extractedFacts,
\* and when the entry write fails no profile write is performed.
\*   remote: a saveEntry call carries its entry's facts into the merge and has
\*     its entry stored by the time it reads or writes the profile; the profile
\*     changes only by a call at its profile write, storing what that call read
\*     merged with its facts; a call whose entry write fails stops there.
\*   on-device: a saveEntry that leaves the entries as they were leaves the
\*     profile as it was; one that changes the profile has stored the entry
\*     first in the list and merged that entry's facts into the old profile.
C11_EntryBeforeMerge ==
    /\ [](\A p \in DOMAIN calls :
            calls[p].op = "saveEntry" =>
                /\ calls[p].facts = calls[p].entry.metadata.extractedFacts
                /\ (calls[p].pc \in {"profileRead", "profileWrite"} \/ calls[p].writeVer > 0)
                       => \E d \in fsEntries : d.id = calls[p].entry.id)
    /\ [][ /\ fsProfile' # fsProfile =>
                 \E q \in DOMAIN calls :
                     /\ calls[q].pc = "profileWrite" /\ calls'[q].pc = "done"
                     /\ fsProfile' = Doc(Profile(Merge(calls[q].read, calls[q].facts.v), clock))
           /\ \A p \in DOMAIN calls :
                 /\ (calls[p].pc = "entryWrite" /\ calls'[p].pc = "failed")
                        => fsEntries' = fsEntries /\ fsProfile' = fsProfile
                 /\ (calls[p].pc = "failed" /\ calls'[p] # calls[p])
                        => callsLeft' < callsLeft /\ calls'[p].writeVer = 0
           /\ lastOp'.op = "saveEntry" =>
                 /\ lsEntries' = lsEntries => lsProfile' = lsProfile
                 /\ lsProfile' # lsProfile =>
                       /\ Len(LocalGetEntries') = Len(LocalGetEntries) + 1
                       /\ JSONparse(lsProfile').coreMemories =
                             Merge(LocalGetUserProfile.coreMemories,
                                   LocalGetEntries'[1].metadata.extractedFacts.v) ]_vars

\* C11, the case: a remote saveEntry has stored its entry and then merged its
\* facts into the profile.
C11_EntryThenMergeReached ==
    \E p \in DOMAIN calls :
        /\ calls[p].op = "saveEntry"
        /\ Wrote(calls[p])
        /\ calls[p].entry \in fsEntries
        /\ ~FalsyOrEmpty(calls[p].facts)
        /\ Range(calls[p].facts.v) \subseteq Range(StoredCore)

\* C12: on the remote backend, when the entry write of saveEntry succeeds and
\* the profile read-modify-write that follows fails, saveEntry fails to its
\* caller, the entry stays and the profile does not get the entry's facts.
\* A saveEntry call that has facts to merge and whose profile read failed has
\* not completed as a success, and a saveEntry call that failed leaves its
\* entry stored only with the profile not written by it.
C12_MergeFailureFailsSave ==
    \A p \in DOMAIN calls :
        calls[p].op = "saveEntry" =>
            /\ (calls[p].pc = "done" /\ ~FalsyOrEmpty(calls[p].facts)) => calls[p].readOK
            /\ calls[p].pc = "failed" => calls[p].writeVer = 0

\* C13: on the on-device backend, after n saveEntry calls from an empty
\* store getEntries returns exactly min(n, 100) entries, the most recently
\* saved ones, most recently saved first; 101 saves leave exactly 100.  Under
\* SpecCap the n-th save stores the entry numbered n, and n is the clock.
C13_KeepsNewestHundred ==
    LET es == LocalGetEntries
        n == clock
    IN  /\ Len(es) = IF n < RetentionCap THEN n ELSE RetentionCap
        /\ \A k \in DOMAIN es :
              es[k].timestamp = n - k + 1 /\ es[k].id = ToString(n - k + 1)

\* C13, the case: 101 entries were saved and 100 are kept, the first dropped.
C13_HundredAndOneSaved ==
    /\ clock = RetentionCap + 1
    /\ lastOp.op = "saveEntry"
    /\ Len(LocalGetEntries) = RetentionCap
    /\ LocalGetEntries[RetentionCap].timestamp = 2

TimestampsDescending(es) ==
    \A i, j \in DOMAIN es : i < j => es[i].timestamp >= es[j].timestamp

\* C14: on both backends, in every reachable state, getEntries returns the
\* entries in non-increasing order of their timestamp.
C14_NewestTimestampFirst ==
    /\ TimestampsDescending(LocalGetEntries)
    /\ \A getDocsOK \in BOOLEAN : TimestampsDescending(RemoteGetEntries(getDocsOK))

\* C15: getUserProfile never raises on either backend.  It returns the stored
\* profile when one exists and can be read, and otherwise (nothing stored, a
\* read failure, stored text that does not parse, no signed-in user) an empty
\* profile, coreMemories the empty sequence.
C15_ProfileReadDegrades ==
    /\ lastOp.op = "getUserProfile" =>
          /\ ~lastOp.threw
          /\ IF lsProfile.present /\ lsProfile # GarbageItem
             THEN lastOp.facts = lsProfile.json
             ELSE lastOp.facts.kind = "profile" /\ lastOp.facts.coreMemories = <<>>
    /\ \A p \in DOMAIN calls :
          calls[p].op = "getUserProfile" =>
              /\ calls[p].pc \in {"profileRead", "done"}
              /\ calls[p].pc = "done" =>
                    calls[p].read = IF currentUser /\ calls[p].readOK /\ fsProfile.exists
                                    THEN fsProfile.data.coreMemories
                                    ELSE <<>>

\* C15, the case: the on-device profile item does not parse and was read, and
\* a remote read of a stored, non-empty profile failed.
C15_FailedReadsReached ==
    /\ lastOp.op = "getUserProfile"
    /\ lsProfile = GarbageItem
    /\ \E p \in DOMAIN calls :
          /\ calls[p].op = "getUserProfile" /\ calls[p].pc = "done"
          /\ currentUser /\ ~calls[p].readOK
          /\ fsProfile.exists /\ fsProfile.data.coreMemories # <<>>

\* C16: updateUserProfile with an empty or absent fact sequence is a no-op on
\* both backends: no read, no write, coreMemories and lastUpdated as they
\* were, no profile record created.  Remote: such a call is done at once,
\* signed in or not, having read and written nothing, and its invocation
\* changes no document.  On-device: such a call returns without throwing and
\* leaves both items as they were.
C16_NoFactsNoOp ==
    /\ [](\A p \in DOMAIN calls :
            (calls[p].op = "updateUserProfile" /\ FalsyOrEmpty(calls[p].facts)) =>
                /\ calls[p].pc = "done"
                /\ calls[p].read = <<>> /\ ~calls[p].readOK
                /\ calls[p].writeVer = 0)
    /\ [][ /\ \A p \in DOMAIN calls :
                 ( /\ calls'[p] # calls[p]
                   /\ calls'[p].op = "updateUserProfile"
                   /\ FalsyOrEmpty(calls'[p].facts) )
                 => UNCHANGED <<fsProfile, fsEntries, writeCount>>
           /\ (lastOp'.op = "updateUserProfile" /\ FalsyOrEmpty(lastOp'.facts))
                 => /\ ~lastOp'.threw
                    /\ UNCHANGED <<lsProfile, lsEntries>> ]_vars

\* C16, the case: a remote updateUserProfile([]) has returned with a profile
\* stored by an earlier call.
C16_EmptyUpdateReached ==
    \E p \in DOMAIN calls :
        /\ calls[p].op = "updateUserProfile"
        /\ calls[p].facts = Arr(<<>>)
        /\ calls[p].pc = "done"
        /\ fsProfile.exists /\ StoredCore # <<>>

\* A document that is not a well-formed interchange document: text that does
\* not parse, a JSON value that is not an object, an entries field that is not
\* a sequence, a profile field that is not a profile object, or neither field.
NotWellFormed(doc) ==
    \/ doc.text # "object"
    \/ doc.entriesField = "notArray"
    \/ doc.hasProfile /\ doc.profile.kind # "profile"
    \/ doc.entriesField = "absent" /\ ~doc.hasProfile

\* C17: importData of a document that is not well-formed reports failure and
\* leaves the stored entries and the stored profile exactly as they were.
C17_RejectedImportChangesNothing ==
    [][ \A doc \in Documents :
            (NotWellFormed(doc) /\ LocalImportDataEffect(doc))
            => /\ lastOp'.threw
               /\ UNCHANGED <<lsEntries, lsProfile>> ]_vars

\* C18: importData of a well-formed document with an entries sequence and no
\* profile replaces the stored entries with that sequence and leaves the
\* stored profile as it was; one with a profile and no entries replaces the
\* profile and leaves the stored entries as they were.
C18_ImportReplacesWhatIsGiven ==
    [][ \A doc \in Documents :
            (~NotWellFormed(doc) /\ LocalImportDataEffect(doc))
            => /\ ~lastOp'.threw
               /\ (doc.entriesField = "array" /\ ~doc.hasProfile)
                     => /\ lsEntries'.present /\ JSONparse(lsEntries') = doc.entries
                        /\ lsProfile' = lsProfile
               /\ (doc.hasProfile /\ doc.entriesField = "absent")
                     => /\ lsProfile'.present /\ JSONparse(lsProfile') = doc.profile
                        /\ lsEntries' = lsEntries ]_vars

\* C18, the case: entries were imported and the profile stored before, one no
\* document carries, is still there.
C18_EntriesImportedProfileKept ==
    /\ lastOp.op = "importData" /\ ~lastOp.threw
    /\ lsEntries.present
    /\ JSONparse(lsEntries) \in ImportedEntries \ {<<>>}
    /\ lsProfile.present
    /\ JSONparse(lsProfile) \notin ImportedProfiles
    /\ JSONparse(lsProfile).coreMemories # <<>>

\* A step that is importData(exportData()), the export made at the time the
\* step ends.
IsRoundTrip == LocalImportDataEffect(ExportData(clock'))

\* C19, as stated: for every reachable on-device state, the state with no
\* profile record included, importData(exportData()) succeeds and afterwards
\* getEntries and getUserProfile return values equal to those they returned
\* before the export.
C19_RoundTripReturnsEqualValues ==
    [][ IsRoundTrip =>
            /\ ~lastOp'.threw
            /\ LocalGetEntries' = LocalGetEntries
            /\ LocalGetUserProfile' = LocalGetUserProfile ]_vars

\* C19, amended: importData(exportData()) succeeds; getEntries returns what it
\* returned before; getUserProfile returns what it returned before when a
\* profile record was stored, and when none was stored a record is created:
\* the empty profile stamped with the time of the export.
C19_RoundTripKeepsContent ==
    [][ IsRoundTrip =>
            /\ ~lastOp'.threw
            /\ LocalGetEntries' = LocalGetEntries
            /\ IF lsProfile.present
               THEN LocalGetUserProfile' = LocalGetUserProfile
               ELSE /\ lsProfile'.present
                    /\ JSONparse(lsProfile') = EmptyProfile(clock') ]_vars

\* C19, the case: a round trip made after time had passed, with entries
\* stored and no profile record, has left an empty profile stamped then.
C19_RoundTripWithoutProfileReached ==
    /\ lastOp.op = "importData" /\ ~lastOp.threw
    /\ clock > 0
    /\ lsProfile.present /\ JSONparse(lsProfile) = EmptyProfile(clock)
    /\ LocalGetEntries # <<>>

\* C20: on the on-device backend, after clearHistory returns getEntries
\* returns the empty sequence and getUserProfile an empty profile, whatever
\* was stored before, and a following saveEntry starts from that empty state:
\* it leaves its entry alone in the list and a profile of that entry's facts
\* only.
C20_ClearLeavesEmptyStore ==
    /\ [](lastOp.op = "clearHistory" =>
            /\ ~lastOp.threw
            /\ LocalGetEntries = <<>>
            /\ LocalGetUserProfile = EmptyProfile(clock))
    /\ [][ (lastOp.op = "clearHistory" /\ lastOp'.op = "saveEntry" /\ ~lastOp'.threw)
            => /\ Len(LocalGetEntries') = 1
               /\ IF FalsyOrEmpty(lastOp'.facts)
                  THEN ~lsProfile'.present
                  ELSE JSONparse(lsProfile').coreMemories = ArrayFromSet(lastOp'.facts.v) ]_vars

\* C20, the case: clearHistory has returned and both items are gone.
C20_ClearedReached ==
    /\ lastOp.op = "clearHistory"
    /\ ~lsEntries.present
    /\ ~lsProfile.present

\* C21: analyzeHistory called with an empty history returns the fixed guidance
\* message whatever the query text is, without reading the profile and without
\* sending a request; and a query submitted over an empty history shows that
\* message, calls the analysis service not at all, reads no profile and
\* leaves both stores as they were.
C21_EmptyHistoryShortCircuits ==
    /\ [](\A q \in Queries, clientThrows \in BOOLEAN :
            LET y == AnalyzeHistoryCall(<<>>, q, clientThrows)
            IN  /\ y.state = "fulfilled"
                /\ y.value = MsgNeedEntries
                /\ y.reads = 0
                /\ ~y.request.sent)
    /\ [][( /\ dash'.submits # dash.submits
            /\ Trim(dash'.query) # ""
            /\ Len(dash.entries) = 0 )
          => ( /\ dash'.analysisResult = MsgNeedEntries
               /\ dash'.serviceCalls = dash.serviceCalls
               /\ dash'.profileReads = dash.profileReads
               /\ ~dash'.pending
               /\ UNCHANGED <<lsEntries, lsProfile, fsEntries, fsProfile>> )]_vars

C21_EmptyHistoryQueried ==
    /\ ~dash.isLoading
    /\ dash.entries = <<>>
    /\ dash.submits > 0
    /\ Trim(dash.query) # ""
    /\ dash.analysisResult = MsgNeedEntries
    /\ dash.serviceCalls = 0

\* C22: when the analysis call of a historical query fails, the dashboard
\* shows the apology string, no exception leaves the query handler, the
\* analyzing flag is false again, and the step that handles the failure
\* writes neither store.
C22_FailedAnalysisApologises ==
    /\ [](dash.settled = "rejected"
            => ( /\ dash.analysisResult = MsgSystemError
                 /\ ~dash.escaped
                 /\ ~dash.isAnalyzing
                 /\ ~dash.pending ))
    /\ [][dash'.settled = "rejected"
            => UNCHANGED <<lsEntries, lsProfile, fsEntries, fsProfile>>]_vars

C22_ServiceRejected ==
    /\ dash.settled = "rejected"
    /\ dash.serviceCalls > 0
    /\ dash.analysisResult = MsgSystemError

\* C23: the request analyzeHistory sends for a non-empty history carries the
\* coreMemories stored in the profile, one projection per history entry, in
\* the history's order, and the query text, with either store behind
\* getUserProfile.
C23_RequestCarriesProfileAndHistory ==
    dash.pending =>
        /\ dash.request.sent
        /\ dash.request.coreMemories =
               Arr(IF backend = "local" THEN LocalGetUserProfile.coreMemories
                   ELSE StoredCore)
        /\ Len(dash.request.contextData) = Len(dash.entries)
        /\ \A k \in DOMAIN dash.entries :
               dash.request.contextData[k].entry = dash.entries[k].id
        /\ dash.request.userQuery = dash.query

\* C24 as stated: an entry saveEntry has persisted is still returned by
\* getEntries, with the content it was saved with, after every later
\* saveEntry and updateUserProfile step, on either backend.
C24_SavedEntryStays ==
    [][ /\ \A k \in DOMAIN LocalGetEntries :
              \E j \in DOMAIN LocalGetEntries' : LocalGetEntries'[j] = LocalGetEntries[k]
        /\ \A d \in fsEntries : d \in fsEntries' ]_vars

\* C24, amended: a persisted entry is still returned with unchanged content
\* after every later saveEntry and updateUserProfile step, except that the
\* on-device store drops its oldest entry when a save takes it past 100
\* entries (a save moves every entry one place down the list and keeps the
\* first 100 places), and that the remote store replaces the entry when a
\* later saveEntry carries the same id.
C24_SavedEntryStaysWithinCap ==
    [][ /\ \/ LocalGetEntries' = LocalGetEntries
           \/ /\ lastOp'.op = "saveEntry"
              /\ Len(LocalGetEntries') <= RetentionCap
              /\ \A k \in DOMAIN LocalGetEntries :
                    k < RetentionCap =>
                       /\ k + 1 \in DOMAIN LocalGetEntries'
                       /\ LocalGetEntries'[k + 1] = LocalGetEntries[k]
        /\ \A d \in fsEntries :
              \/ d \in fsEntries'
              \/ \E p \in DOMAIN calls :
                    /\ calls[p].pc = "entryWrite"
                    /\ calls[p].entry.id = d.id
                    /\ calls[p].entry \in fsEntries' ]_vars

\* C24, the case: the on-device store is full and a later save has pushed
\* the first entry out.
C24_OldestPushedOut ==
    /\ backend = "local"
    /\ Len(LocalGetEntries) = RetentionCap
    /\ \A k \in DOMAIN LocalGetEntries : LocalGetEntries[k].id # "1"
    /\ LocalGetEntries[1].timestamp = clock

\* C25: on both backends getEntries never returns two entries with the same
\* id: saving an entry whose id is already stored adds no second copy.
C25_OneEntryPerId ==
    /\ \A i, j \in DOMAIN LocalGetEntries :
          LocalGetEntries[i].id = LocalGetEntries[j].id => i = j
    /\ \A i, j \in DOMAIN RemoteGetEntries(TRUE) :
          RemoteGetEntries(TRUE)[i].id = RemoteGetEntries(TRUE)[j].id => i = j

\* C26: after the same sequential saveEntry calls on both backends, started
\* empty with a signed-in user and below the cap, getEntries returns the same
\* sequence of entries on both and getUserProfile the same set of
\* coreMemories.
C26_BackendsAgree ==
    /\ LocalGetEntries = RemoteGetEntries(TRUE)
    /\ Range(LocalGetUserProfile.coreMemories) = Range(StoredCore)

\* C30: the label getContextualLocation returned for the hour h of a fix is
\* the work label exactly when 9 <= h < 17, the home label exactly when
\* h > 22 or h < 7, and the outdoors/transit label for every other hour.
C30_LabelByHour ==
    widget.geo.status = "fix" =>
        LET h == widget.geo.hour
            atWork == 9 <= h /\ h < 17
            atHome == h > 22 \/ h < 7
        IN  /\ widget.locationName = LabelWork <=> atWork
            /\ widget.locationName = LabelHome <=> atHome
            /\ widget.locationName = LabelOutdoors <=> (~atWork /\ ~atHome)

\* A previous capture still occupies the controller: its microphone request
\* is pending (Initializing), its recorder records (Recording), its stop was
\* requested and the stop event is not delivered yet (stopping), or its
\* handleStop awaits the extraction (Processing).
CaptureBusy(j) ==
    \/ rec[j].mic = "pending"
    \/ rec[j].recorder \in {"recording", "stopping", "flushed"}
    \/ rec[j].flow = "awaitExtraction"

\* C27: startRecording runs only when the controller is Idle: no step starts
\* a capture while an earlier capture is initializing, recording, stopping or
\* processing.
C27_StartOnlyFromIdle ==
    [][\A i \in DOMAIN rec :
          (rec[i].mic = "none" /\ rec'[i].mic = "pending")
              => \A j \in DOMAIN rec : ~CaptureBusy(j)]_vars

\* The start of capture i failed: getUserMedia rejected, or the recorder
\* could not be built or started on the stream it was given.
StartFailed(i) == rec[i].mic = "failed" \/ rec[i].recorder = "startFailed"

\* C29: when startRecording fails, the failure is classified into one of the
\* three messages, the capture does not record, and afterwards no microphone
\* stream of it is held and no timer of it runs.
C29_FailedStartHoldsNothing ==
    \A i \in Recordings :
        StartFailed(i) =>
            /\ rec[i].err \in {MsgPermission, MsgNotFound, MsgMicFailed}
            /\ rec[i].recorder # "recording"
            /\ ~rec[i].timer
            /\ rec[i].mic = "acquired" => rec[i].releases > 0

\* The controller is Idle: not initializing, not recording, not processing.
Idle == ~widget.isInitializing /\ ~widget.isRecording /\ ~widget.isProcessing

C31_StopOnlyWhileRecording ==
    /\ [][(~widget.isRecording /\ StopRecording) => UNCHANGED <<rec, widget>>]_vars
    /\ [][\A i \in Recordings :
            ( \/ rec'[i].releases # rec[i].releases
              \/ rec[i].recorder # "stopping" /\ rec'[i].recorder = "stopping"
              \/ rec[i].timer /\ ~rec'[i].timer )
            => ( /\ widget.isRecording
                 /\ widget.mediaRecorderRef = i
                 /\ rec[i].recorder = "recording"
                 /\ rec'[i].recorder = "stopping"
                 /\ rec'[i].releases = rec[i].releases + 1
                 /\ ~rec'[i].timer
                 /\ ~widget'.isRecording )]_vars
    /\ \A i \in Recordings :
          (rec[i].recorder = "stopping") ~> (rec[i].flow # "none")

\* C31, the case: a recording was stopped and its handleStop has run.
C31_StoppedAndProcessed ==
    \E i \in Recordings :
        /\ rec[i].releases = 1
        /\ ~rec[i].timer
        /\ rec[i].recorder = "inactive"
        /\ rec[i].flow # "none"
        /\ ~widget.isRecording

\* C32: the clip handleStop assembles for a stopped recording is exactly the
\* chunks with data that this recording's recorder delivered, in the order
\* of delivery, and it is given the media type of that recorder.
C32_ClipIsOwnChunks ==
    \A i \in DOMAIN rec :
        rec[i].flow # "none" =>
            /\ rec[i].clip = rec[i].delivered
            /\ rec[i].typedBy = i

\* C33: in every reachable state of the on-device store, under saveEntry,
\* importData and clearHistory, at most 100 entries are stored.
C33_AtMostHundredStored == Len(LocalGetEntries) <= RetentionCap

\* C34: the on-device saveEntry is atomic over the entry and the profile: a
\* call that raises (its profile write failed) leaves the entries as they
\* were, and a call that stores its entry has stored its facts in the profile.
C34_SaveIsAllOrNothing ==
    [][lastOp'.op = "saveEntry" =>
          /\ lastOp'.threw => lsEntries' = lsEntries
          /\ (lsEntries' # lsEntries /\ ~FalsyOrEmpty(lastOp'.facts)) =>
                /\ LocalGetUserProfile'.kind = "profile"
                /\ Range(lastOp'.facts.v) \subseteq Range(LocalGetUserProfile'.coreMemories)
      ]_vars

\* C35: when geolocation is unavailable or the position request fails, the
\* location label is one the time-of-day heuristic produces; when a fix was
\* obtained the label does not come from the heuristic.
C35_HeuristicOnlyWithoutFix ==
    LET heuristic == {getContextualLocation(h) : h \in Hours} IN
    /\ widget.geo.status \in {"unavailable", "error"} => widget.locationName \in heuristic
    /\ widget.geo.status = "fix" => widget.locationName \notin heuristic

\* lastUpdated of the stored profile, on either store; 0 when none is stored.
LocalLastUpdated ==
    IF lsProfile.present /\ LocalGetUserProfile.kind = "profile"
    THEN LocalGetUserProfile.lastUpdated ELSE 0
RemoteLastUpdated == IF fsProfile.exists THEN fsProfile.data.lastUpdated ELSE 0

\* C36 as stated: every completed updateUserProfile call with facts writes a
\* profile whose lastUpdated is the time of the call, and lastUpdated of the
\* stored profile never decreases while the clock does not.
C36_LastUpdatedNeverDecreases ==
    [][ /\ LocalLastUpdated' >= LocalLastUpdated
        /\ RemoteLastUpdated' >= RemoteLastUpdated ]_vars

\* C36, amended: every completed updateUserProfile call with facts writes a
\* profile whose lastUpdated is the time the call read the clock, also when
\* it adds no fact: on the device the time of the step, on the remote store
\* the time its profile read returned, not later than its write.  The stored
\* lastUpdated never decreases on the device; on the remote store it
\* decreases only by the write of a call that read the profile before the
\* write it overwrites, that is when two calls overlap.
C36_LastUpdatedIsCallTime ==
    [][ /\ ( /\ clock' = clock
             /\ lastOp'.op = "updateUserProfile"
             /\ ~FalsyOrEmpty(lastOp'.facts)
             /\ ~lastOp'.threw )
            => ( /\ LocalGetUserProfile'.lastUpdated = clock
                 /\ LocalLastUpdated' >= LocalLastUpdated )
        /\ \A p \in DOMAIN calls :
              (calls[p].pc = "profileWrite" /\ calls'[p].pc = "done")
                 => ( /\ fsProfile'.data.lastUpdated = calls[p].now
                      /\ calls[p].now <= clock
                      /\ \/ RemoteLastUpdated' >= RemoteLastUpdated
                         \/ calls[p].readVer < writeCount )
        /\ (\A p \in DOMAIN calls : calls'[p].writeVer = calls[p].writeVer)
              => fsProfile' = fsProfile ]_vars

\* C36, the case: a call that added no fact has moved lastUpdated forward.
C36_StampMovedWithoutNewFact ==
    \/ /\ backend = "local"
       /\ lastOp.op = "updateUserProfile" /\ ~FalsyOrEmpty(lastOp.facts) /\ ~lastOp.threw
       /\ LocalLastUpdated = MaxClock
       /\ Len(LocalGetUserProfile.coreMemories) = 1
    \/ /\ backend = "remote"
       /\ writeCount >= 2
       /\ RemoteLastUpdated = MaxClock
       /\ Len(StoredCore) = 1

\* C37: on the remote store, under every interleaving of two saveEntry calls
\* for entries with distinct ids, both entries are persisted once both calls
\* have got past their entry write, whatever happens to the profile merges:
\*   - when both calls are past their entry write (and so when both have
\*     completed), a document is stored under each of the two ids;
\*   - a successful entry write stores the call's entry and leaves every
\*     document with another id as it was;
\*   - no step removes a document, and only an entry write changes them.
C37_BothEntriesPersisted ==
    /\ [](\A p \in DOMAIN calls : \A q \in DOMAIN calls :
            ( /\ calls[p].op = "saveEntry" /\ calls[q].op = "saveEntry"
              /\ calls[p].entry.id # calls[q].entry.id
              /\ calls[p].pc \in {"profileRead", "profileWrite", "done"}
              /\ calls[q].pc \in {"profileRead", "profileWrite", "done"} )
                => /\ \E d \in fsEntries : d.id = calls[p].entry.id
                   /\ \E d \in fsEntries : d.id = calls[q].entry.id)
    /\ [][ /\ \A p \in DOMAIN calls :
                 ( /\ calls[p].pc = "entryWrite"
                   /\ calls'[p].pc \notin {"entryWrite", "failed"} )
                     => /\ calls[p].entry \in fsEntries'
                        /\ \A d \in fsEntries :
                              d.id # calls[p].entry.id => d \in fsEntries'
           /\ \A d \in fsEntries : \E n \in fsEntries' : n.id = d.id
           /\ fsEntries' # fsEntries =>
                 \E p \in DOMAIN calls :
                     calls[p].pc = "entryWrite" /\ calls'[p].pc # "entryWrite" ]_vars

\* Two overlapping saveEntry calls for distinct ids have both completed:
\* each read the profile before the other wrote it, so one merge is lost,
\* and both entries are stored.
C37_OverlappingSavesBothStored ==
    /\ calls[1].op = "saveEntry" /\ calls[2].op = "saveEntry"
    /\ calls[1].pc = "done" /\ calls[2].pc = "done"
    /\ calls[1].entry.id # calls[2].entry.id
    /\ calls[1].writeVer > 0 /\ calls[2].writeVer > 0
    /\ calls[1].readVer < calls[2].writeVer
    /\ calls[2].readVer < calls[1].writeVer
    /\ {calls[1].entry, calls[2].entry} \subseteq fsEntries

\* C38: on the on-device store, after any importData that reported success
\* the stored profile is a record with a coreMemories sequence: what
\* getUserProfile returns from then on is a well-formed profile, which a
\* later saveEntry with facts can merge into without raising.
C38_ImportLeavesWellFormedProfile ==
    (lastOp.op = "importData" /\ ~lastOp.threw)
        => LocalGetUserProfile.kind = "profile"

\* C39: on the remote store with no signed-in user, getEntries returns the
\* empty sequence (whatever the account holds) and getUserProfile returns an
\* empty profile without raising; saveEntry, clearHistory and
\* updateUserProfile with non-empty facts raise the not-authenticated error,
\* updateUserProfile without facts returns without raising, and no step
\* writes to the store.
C39_NoUserNoWrite ==
    /\ [](~currentUser =>
            /\ \A ok \in BOOLEAN : RemoteGetEntries(ok) = <<>>
            /\ ~dash.isLoading => dash.entries = <<>>
            /\ \A p \in DOMAIN calls :
                  /\ calls[p].op = "getUserProfile"
                        => calls[p].pc = "done" /\ calls[p].read = <<>>
                  /\ calls[p].op \in {"saveEntry", "clearHistory"}
                        => calls[p].pc = "failed"
                  /\ calls[p].op = "updateUserProfile"
                        => calls[p].pc = IF FalsyOrEmpty(calls[p].facts)
                                         THEN "done" ELSE "failed")
    /\ [][ ~currentUser =>
              /\ fsEntries' = fsEntries
              /\ fsProfile' = fsProfile
              /\ writeCount' = writeCount ]_vars

\* Signed out over an account that holds entries and a profile: a saveEntry
\* and a clearHistory have raised, the dashboard has loaded, and the
\* documents are still there.
C39_SignedOutCallsRaised ==
    /\ ~currentUser
    /\ fsEntries = Range(AccountHistory) /\ fsProfile.exists
    /\ \E p \in DOMAIN calls : calls[p].op = "saveEntry" /\ calls[p].pc = "failed"
    /\ \E p \in DOMAIN calls : calls[p].op = "clearHistory" /\ calls[p].pc = "failed"
    /\ ~dash.isLoading /\ dash.entries = <<>>

====
